---- MODULE Spec2Model ----
(***************************************************************************)
(* Model of the memory-simulator block allocator (Allocator, MemoryBlock,  *)
(* AllocationStats).  The doubly linked, address-ordered block chain is a  *)
(* sequence of MemoryBlock records: node i's next is node i+1 and its prev *)
(* is node i-1; head == nullptr is the empty sequence.                     *)
(*                                                                         *)
(* Model of the cache hierarchy (CacheSimulator, CacheLevel, CacheLine,    *)
(* CacheStats).  The two engines share no state: Spec runs the allocator   *)
(* and leaves the cache as constructed, SpecCache runs the cache and       *)
(* leaves the allocator as constructed.                                    *)
(***************************************************************************)
EXTENDS Integers, Sequences, FiniteSets, TLC

\* ---------------------------------------------------------------- bounds
\* largest size passed to initMemory
MaxMem == 7
\* largest size passed to allocate
MaxAlloc == 2
\* allocate is not called any more once next_block_id exceeds this
MaxId == 4
\* out-of-memory allocations are not attempted any more beyond this count
MaxFail == 1

\* sizes given to "init memory <size>" (std::stoull accepts 0)
InitSizes == {0, MaxMem}
\* sizes given to "malloc <size>"
AllocSizes == 0 .. MaxAlloc
\* ids given to "free <id>"
FreeIds == -1 .. MaxId

\* most levels added to the hierarchy
MaxLevels == 2
\* largest address passed to CacheSimulator::access
MaxAddr == 2
\* CacheSimulator::access is not called any more after this many calls
MaxAccess == 2

\* a hierarchy of one level is not accessed any more after this many calls
MaxSetAccess == 4

\* largest number of sets of the level geometries whose set index and tag are compared
MaxSets == 6

\* CacheSimulator::memory_latency
MemoryLatency == 100

ReplacementPolicy == {"FIFO", "LRU"}

\* arguments given to addLevel: a direct-mapped level of two one-byte blocks
\* and two-way levels of one set of two-byte blocks
LevelConfigs ==
    {[size |-> 2, block_size |-> 1, associativity |-> 1, policy |-> "LRU",  latency |-> 1],
     [size |-> 4, block_size |-> 2, associativity |-> 2, policy |-> "LRU",  latency |-> 10],
     [size |-> 4, block_size |-> 2, associativity |-> 2, policy |-> "FIFO", latency |-> 10]}
\* arguments given to addLevel for a hierarchy of one level: every address is
\* a block of its own; a direct-mapped level of two sets and a level of one
\* two-way set under either policy
SetConfigs ==
    {[size |-> 2, block_size |-> 1, associativity |-> 1, policy |-> "LRU",  latency |-> 1],
     [size |-> 2, block_size |-> 1, associativity |-> 2, policy |-> "LRU",  latency |-> 1],
     [size |-> 2, block_size |-> 1, associativity |-> 2, policy |-> "FIFO", latency |-> 1]}
\* arguments given to addLevel that std::stoull accepts as well: three
\* one-byte lines in three sets, three lines for two ways (one set, one line
\* left over), and one line for two ways (no set)
GeometryConfigs ==
    {[size |-> 3, block_size |-> 1, associativity |-> 1, policy |-> "LRU", latency |-> 1],
     [size |-> 3, block_size |-> 1, associativity |-> 2, policy |-> "LRU", latency |-> 1],
     [size |-> 1, block_size |-> 1, associativity |-> 2, policy |-> "LRU", latency |-> 1]}

\* arguments given to addLevel for a hierarchy of one direct-mapped level of
\* three sets
AliasConfigs ==
    {[size |-> 3, block_size |-> 1, associativity |-> 1, policy |-> "LRU", latency |-> 1]}
\* addresses given to the level of three sets: address 3 shares set 0 with address 0
AliasAddresses == 0 .. MaxAddr + 1

\* addresses given to "cache read <address>" / "cache write <address>"
Addresses == 0 .. MaxAddr

\* ----------------------------------------------------------------- state
VARIABLES
    chain,          \* head and the next/prev links: Seq(MemoryBlock)
    total_size,     \* Allocator::total_size
    strategy,       \* Allocator::strategy
    next_block_id,  \* Allocator::next_block_id
    stats,          \* Allocator::stats
    last,           \* the call made last: operation, argument, return value
    issued          \* ids returned by successful allocate calls since the last initMemory

vars == <<chain, total_size, strategy, next_block_id, stats, last, issued>>

VARIABLES
    levels,             \* CacheSimulator::levels: Seq(CacheLevel)
    initialized,        \* CacheSimulator::initialized
    total_access_time,  \* CacheSimulator::total_access_time
    clast,              \* the cache call made last: operation, arguments, printed path and cycles
    naccess,            \* number of CacheSimulator::access calls made so far
    history             \* per level: naccess when it was added, and per line the value
                        \* of the level's access counter when the line was last installed
                        \* and the block (address div block_size) it was installed for

cvars == <<levels, initialized, total_access_time, clast, naccess, history>>

\* MemoryBlock(addr, sz, free, id)
MemoryBlock(addr, sz, free, id) ==
    [address |-> addr, size |-> sz, is_free |-> free, block_id |-> id]

AllocationStrategy == {"FIRST_FIT", "BEST_FIT", "WORST_FIT"}

\* external_fragmentation is the real number num / den (den > 0)
Percent(n, d) == [num |-> n, den |-> d]

\* AllocationStats(): every field zero
AllocationStats ==
    [total_memory |-> 0, used_memory |-> 0, free_memory |-> 0,
     num_allocations |-> 0, num_deallocations |-> 0,
     allocation_failures |-> 0, external_fragmentation |-> Percent(0, 1)]

\* head != nullptr
isInitialized == chain # <<>>

\* ------------------------------------------------------ placement (pure)
\* the scans return the position of the chosen node, 0 for nullptr
RECURSIVE firstFitScan(_, _, _)
firstFitScan(ch, current, size) ==
    IF current > Len(ch) THEN 0
    ELSE IF ch[current].is_free /\ ch[current].size >= size THEN current
    ELSE firstFitScan(ch, current + 1, size)

\* a firstFit that keeps scanning and returns the last suitable node
RECURSIVE firstFitLastScan(_, _, _, _)
firstFitLastScan(ch, current, size, found) ==
    IF current > Len(ch) THEN found
    ELSE IF ch[current].is_free /\ ch[current].size >= size
         THEN firstFitLastScan(ch, current + 1, size, current)
         ELSE firstFitLastScan(ch, current + 1, size, found)

firstFitLast(ch, size) == firstFitLastScan(ch, 1, size, 0)

\* a firstFit that wants a node strictly larger than the request
RECURSIVE firstFitStrictScan(_, _, _)
firstFitStrictScan(ch, current, size) ==
    IF current > Len(ch) THEN 0
    ELSE IF ch[current].is_free /\ ch[current].size > size THEN current
    ELSE firstFitStrictScan(ch, current + 1, size)

firstFitStrict(ch, size) == firstFitStrictScan(ch, 1, size)

firstFit(ch, size) == firstFitScan(ch, 1, size)

RECURSIVE bestFitScan(_, _, _, _)
bestFitScan(ch, current, size, best) ==
    IF current > Len(ch) THEN best
    ELSE IF ch[current].is_free /\ ch[current].size >= size
            /\ (best = 0 \/ ch[current].size < ch[best].size)
         THEN bestFitScan(ch, current + 1, size, current)
         ELSE bestFitScan(ch, current + 1, size, best)

\* a bestFit that compares with <= and so keeps the last of equal candidates
RECURSIVE bestFitTieScan(_, _, _, _)
bestFitTieScan(ch, current, size, best) ==
    IF current > Len(ch) THEN best
    ELSE IF ch[current].is_free /\ ch[current].size >= size
            /\ (best = 0 \/ ch[current].size <= ch[best].size)
         THEN bestFitTieScan(ch, current + 1, size, current)
         ELSE bestFitTieScan(ch, current + 1, size, best)

bestFitTie(ch, size) == bestFitTieScan(ch, 1, size, 0)

bestFit(ch, size) == bestFitScan(ch, 1, size, 0)

RECURSIVE worstFitScan(_, _, _, _)
worstFitScan(ch, current, size, worst) ==
    IF current > Len(ch) THEN worst
    ELSE IF ch[current].is_free /\ ch[current].size >= size
            /\ (worst = 0 \/ ch[current].size > ch[worst].size)
         THEN worstFitScan(ch, current + 1, size, current)
         ELSE worstFitScan(ch, current + 1, size, worst)

\* a worstFit that compares with >= and so keeps the last of equal candidates
RECURSIVE worstFitTieScan(_, _, _, _)
worstFitTieScan(ch, current, size, worst) ==
    IF current > Len(ch) THEN worst
    ELSE IF ch[current].is_free /\ ch[current].size >= size
            /\ (worst = 0 \/ ch[current].size >= ch[worst].size)
         THEN worstFitTieScan(ch, current + 1, size, current)
         ELSE worstFitTieScan(ch, current + 1, size, worst)

worstFitTie(ch, size) == worstFitTieScan(ch, 1, size, 0)

worstFit(ch, size) == worstFitScan(ch, 1, size, 0)

findFreeBlock(strat, ch, size) ==
    CASE strat = "FIRST_FIT" -> firstFit(ch, size)
      [] strat = "BEST_FIT"  -> bestFit(ch, size)
      [] strat = "WORST_FIT" -> worstFit(ch, size)
      [] OTHER               -> firstFit(ch, size)

\* ------------------------------------------------------------ chain edits
\* ch with the nodes at positions i .. j replaced by the sequence mid
Splice(ch, i, j, mid) == SubSeq(ch, 1, i - 1) \o mid \o SubSeq(ch, j + 1, Len(ch))

\* a split that hands out the whole node and creates no remainder
splitAndMarkWhole(ch, block, size, id) ==
    Splice(ch, block, block,
           <<MemoryBlock(ch[block].address, ch[block].size, FALSE, id)>>)

\* a split whose remainder starts at the node's own address
splitAndMarkSameAddress(ch, block, size, id) ==
    LET b == ch[block] IN
    IF b.size > size
    THEN Splice(ch, block, block,
                <<MemoryBlock(b.address, size, FALSE, id),
                  MemoryBlock(b.address, b.size - size, TRUE, -1)>>)
    ELSE Splice(ch, block, block, <<MemoryBlock(b.address, b.size, FALSE, id)>>)

\* allocate, lines 144-165: split the node at position block when it is
\* larger than size, then mark it allocated with id
splitAndMark(ch, block, size, id) ==
    LET b == ch[block] IN
    IF b.size > size
    THEN Splice(ch, block, block,
                <<MemoryBlock(b.address, size, FALSE, id),
                  MemoryBlock(b.address + size, b.size - size, TRUE, -1)>>)
    ELSE Splice(ch, block, block, <<MemoryBlock(b.address, b.size, FALSE, id)>>)

\* coalesce, first loop: absorb the next node while it is free
RECURSIVE mergeNext(_, _)
mergeNext(ch, block) ==
    IF block + 1 <= Len(ch) /\ ch[block + 1].is_free
    THEN mergeNext(Splice(ch, block, block + 1,
                          <<[ch[block] EXCEPT !.size = @ + ch[block + 1].size]>>),
                   block)
    ELSE ch

\* coalesce, second loop: let the previous node absorb block while it is free
RECURSIVE mergePrev(_, _)
mergePrev(ch, block) ==
    IF block - 1 >= 1 /\ ch[block - 1].is_free
    THEN mergePrev(Splice(ch, block - 1, block,
                          <<[ch[block - 1] EXCEPT !.size = @ + ch[block].size]>>),
                   block - 1)
    ELSE ch

\* a coalesce that merges forward only
coalesceForwardOnly(ch, block) ==
    IF block = 0 \/ ~ch[block].is_free THEN ch
    ELSE mergeNext(ch, block)

\* a coalesce that merges backward only
coalesceBackwardOnly(ch, block) ==
    IF block = 0 \/ ~ch[block].is_free THEN ch
    ELSE mergePrev(ch, block)

coalesce(ch, block) ==
    IF block = 0 \/ ~ch[block].is_free THEN ch
    ELSE mergePrev(mergeNext(ch, block), block)

\* ----------------------------------------------------------------- stats
RECURSIVE sumSizes(_, _, _)
sumSizes(ch, current, free) ==
    IF current > Len(ch) THEN 0
    ELSE (IF ch[current].is_free = free THEN ch[current].size ELSE 0)
         + sumSizes(ch, current + 1, free)

RECURSIVE largestFree(_, _, _)
largestFree(ch, current, largest) ==
    IF current > Len(ch) THEN largest
    ELSE IF ch[current].is_free /\ ch[current].size > largest
         THEN largestFree(ch, current + 1, ch[current].size)
         ELSE largestFree(ch, current + 1, largest)

freeBlockCount(ch) == Cardinality({i \in 1 .. Len(ch) : ch[i].is_free})

\* an updateStats that recomputes free_memory but leaves used_memory as it was
updateStatsStaleUsed(st, ch) ==
    [st EXCEPT !.free_memory = sumSizes(ch, 1, TRUE)]

\* an updateStats that reports largest_free / total_free without the "1 -"
updateStatsNoComplement(st, ch) ==
    LET total_free   == sumSizes(ch, 1, TRUE)
        largest_free == largestFree(ch, 1, 0)
    IN [st EXCEPT
          !.used_memory = sumSizes(ch, 1, FALSE),
          !.free_memory = total_free,
          !.external_fragmentation =
              IF total_free > 0 /\ freeBlockCount(ch) > 1
              THEN Percent(largest_free * 100, total_free)
              ELSE Percent(0, 1)]

updateStats(st, ch) ==
    LET total_free   == sumSizes(ch, 1, TRUE)
        largest_free == largestFree(ch, 1, 0)
    IN [st EXCEPT
          !.used_memory = sumSizes(ch, 1, FALSE),
          !.free_memory = total_free,
          !.external_fragmentation =
              IF total_free > 0 /\ freeBlockCount(ch) > 1
              THEN Percent((total_free - largest_free) * 100, total_free)
              ELSE Percent(0, 1)]

\* ------------------------------------------------------------ operations
\* main: Allocator allocator; CacheSimulator cacheSimulator;
Init ==
    /\ chain = <<>>
    /\ total_size = 0
    /\ strategy = "FIRST_FIT"
    /\ next_block_id = 1
    /\ stats = AllocationStats
    /\ last = [op |-> "new", arg |-> 0, ret |-> 0]
    /\ issued = <<>>
    /\ levels = <<>>
    /\ initialized = FALSE
    /\ total_access_time = 0
    /\ clast = [op |-> "new", address |-> 0, isWrite |-> FALSE, path |-> <<>>, cycles |-> 0]
    /\ naccess = 0
    /\ history = <<>>

\* an initMemory that does not reset the id counter
initMemoryKeepIds(size) ==
    /\ chain' = <<MemoryBlock(0, size, TRUE, -1)>>
    /\ total_size' = size
    /\ stats' = [AllocationStats EXCEPT !.total_memory = size, !.free_memory = size]
    /\ last' = [op |-> "initMemory", arg |-> size, ret |-> 1]
    /\ issued' = <<>>
    /\ UNCHANGED <<strategy, next_block_id>>
    /\ UNCHANGED cvars

initMemory(size) ==
    /\ chain' = <<MemoryBlock(0, size, TRUE, -1)>>
    /\ total_size' = size
    /\ next_block_id' = 1
    /\ stats' = [AllocationStats EXCEPT !.total_memory = size, !.free_memory = size]
    /\ last' = [op |-> "initMemory", arg |-> size, ret |-> 1]
    /\ issued' = <<>>
    /\ UNCHANGED strategy
    /\ UNCHANGED cvars

setStrategy(strat) ==
    /\ strategy' = strat
    /\ last' = [op |-> "setStrategy", arg |-> 0, ret |-> 0]
    /\ UNCHANGED <<chain, total_size, next_block_id, stats, issued>>
    /\ UNCHANGED cvars

\* allocate before initMemory, or of 0 bytes: return -1
allocateRejected(size) ==
    /\ ~isInitialized \/ size = 0
    /\ last' = [op |-> "allocate", arg |-> size, ret |-> -1]
    /\ UNCHANGED <<chain, total_size, strategy, next_block_id, stats, issued>>
    /\ UNCHANGED cvars

\* a failing allocate that has already taken an id
allocateNoBlockTakesId(size) ==
    /\ isInitialized /\ size # 0
    /\ findFreeBlock(strategy, chain, size) = 0
    /\ stats.allocation_failures < MaxFail
    /\ next_block_id' = next_block_id + 1
    /\ stats' = [stats EXCEPT !.allocation_failures = @ + 1]
    /\ last' = [op |-> "allocate", arg |-> size, ret |-> -1]
    /\ UNCHANGED <<chain, total_size, strategy, issued>>
    /\ UNCHANGED cvars

\* allocate with no suitable free block: count the failure, return -1
allocateNoBlock(size) ==
    /\ isInitialized /\ size # 0
    /\ findFreeBlock(strategy, chain, size) = 0
    /\ stats.allocation_failures < MaxFail
    /\ stats' = [stats EXCEPT !.allocation_failures = @ + 1]
    /\ last' = [op |-> "allocate", arg |-> size, ret |-> -1]
    /\ UNCHANGED <<chain, total_size, strategy, next_block_id, issued>>
    /\ UNCHANGED cvars

\* an allocate that reads next_block_id without incrementing it
allocateOkSameId(size) ==
    /\ isInitialized /\ size # 0
    /\ next_block_id <= MaxId
    /\ LET block == findFreeBlock(strategy, chain, size)
           allocated_id == next_block_id
       IN /\ block # 0
          /\ chain' = splitAndMark(chain, block, size, allocated_id)
          /\ stats' = updateStats([stats EXCEPT !.num_allocations = @ + 1], chain')
          /\ last' = [op |-> "allocate", arg |-> size, ret |-> allocated_id]
          /\ issued' = Append(issued, allocated_id)
    /\ UNCHANGED <<total_size, strategy, next_block_id>>
    /\ UNCHANGED cvars

allocateOk(size) ==
    /\ isInitialized /\ size # 0
    /\ next_block_id <= MaxId
    /\ LET block == findFreeBlock(strategy, chain, size)
           allocated_id == next_block_id
       IN /\ block # 0
          /\ next_block_id' = next_block_id + 1
          /\ chain' = splitAndMark(chain, block, size, allocated_id)
          /\ stats' = updateStats([stats EXCEPT !.num_allocations = @ + 1], chain')
          /\ last' = [op |-> "allocate", arg |-> size, ret |-> allocated_id]
          /\ issued' = Append(issued, allocated_id)
    /\ UNCHANGED <<total_size, strategy>>
    /\ UNCHANGED cvars

allocate(size) ==
    \/ allocateRejected(size)
    \/ allocateNoBlock(size)
    \/ allocateOk(size)

\* position of the first node with this id that is not free, 0 when none
RECURSIVE findUsed(_, _, _)
findUsed(ch, current, block_id) ==
    IF current > Len(ch) THEN 0
    ELSE IF ch[current].block_id = block_id /\ ~ch[current].is_free THEN current
    ELSE findUsed(ch, current + 1, block_id)

\* a release that marks the node free and keeps its id
releaseKeepId(ch, current) ==
    [ch EXCEPT ![current] = MemoryBlock(@.address, @.size, TRUE, @.block_id)]

\* free, lines 215-216: mark the node free and clear its id
release(ch, current) ==
    [ch EXCEPT ![current] = MemoryBlock(@.address, @.size, TRUE, -1)]

\* a failing free that counts a deallocation all the same
freeNotFoundCounted(block_id) ==
    /\ ~isInitialized \/ findUsed(chain, 1, block_id) = 0
    /\ stats' = [stats EXCEPT !.num_deallocations = @ + 1]
    /\ last' = [op |-> "free", arg |-> block_id, ret |-> 0]
    /\ UNCHANGED <<chain, total_size, strategy, next_block_id, issued>>
    /\ UNCHANGED cvars

freeNotFound(block_id) ==
    /\ ~isInitialized \/ findUsed(chain, 1, block_id) = 0
    /\ last' = [op |-> "free", arg |-> block_id, ret |-> 0]
    /\ UNCHANGED <<chain, total_size, strategy, next_block_id, stats, issued>>
    /\ UNCHANGED cvars

\* a free that does not count the deallocation
freeOkUncounted(block_id) ==
    /\ isInitialized
    /\ LET current == findUsed(chain, 1, block_id)
       IN /\ current # 0
          /\ chain' = coalesce(release(chain, current), current)
          /\ stats' = updateStats(stats, chain')
    /\ last' = [op |-> "free", arg |-> block_id, ret |-> 1]
    /\ UNCHANGED <<total_size, strategy, next_block_id, issued>>
    /\ UNCHANGED cvars

freeOk(block_id) ==
    /\ isInitialized
    /\ LET current == findUsed(chain, 1, block_id)
       IN /\ current # 0
          /\ chain' = coalesce(release(chain, current), current)
          /\ stats' = updateStats([stats EXCEPT !.num_deallocations = @ + 1], chain')
    /\ last' = [op |-> "free", arg |-> block_id, ret |-> 1]
    /\ UNCHANGED <<total_size, strategy, next_block_id, issued>>
    /\ UNCHANGED cvars

free(block_id) ==
    \/ freeNotFound(block_id)
    \/ freeOk(block_id)

Next ==
    \/ \E size \in InitSizes : initMemory(size)
    \/ \E strat \in AllocationStrategy : setStrategy(strat)
    \/ \E size \in AllocSizes : allocate(size)
    \/ \E block_id \in FreeIds : free(block_id)


\* ------------------------------------------------------------ cache level
\* a CacheLine that is valid from the start
CacheLineValid == [valid |-> TRUE, dirty |-> FALSE, tag |-> 0, last_access |-> 0]

\* CacheLine(): invalid, clean, tag 0, last_access 0
CacheLine == [valid |-> FALSE, dirty |-> FALSE, tag |-> 0, last_access |-> 0]

\* CacheStats(): every counter zero
CacheStats ==
    [hits |-> 0, misses |-> 0, accesses |-> 0, write_backs |-> 0, total_access_time |-> 0]

\* (size_t)std::log2(n) for n >= 1
RECURSIVE Log2(_)
Log2(n) == IF n < 2 THEN 0 ELSE 1 + Log2(n \div 2)

RECURSIVE Pow2(_)
Pow2(k) == IF k = 0 THEN 1 ELSE 2 * Pow2(k - 1)

\* address >> bits
ShiftRight(address, bits) == address \div Pow2(bits)

\* CacheLevel::CacheLevel; sets and ways are indexed from 0 as in the code
CacheLevel(cacheSize, blockSize, assoc, pol, latency) ==
    LET lines == cacheSize \div blockSize
        nsets == lines \div assoc
    IN [size |-> cacheSize, block_size |-> blockSize, associativity |-> assoc,
        num_lines |-> lines, num_sets |-> nsets,
        sets |-> [s \in 0 .. nsets - 1 |-> [i \in 0 .. assoc - 1 |-> CacheLine]],
        fifo_queues |-> [s \in 0 .. nsets - 1 |-> <<>>],
        policy |-> pol, stats |-> CacheStats,
        access_counter |-> 0, access_latency |-> latency]

getSetIndex(lv, address) ==
    LET block_bits == Log2(lv.block_size)
    IN ShiftRight(address, block_bits) % lv.num_sets

\* a getTag that drops one bit more than floor(log2(num_sets)) set bits
getTagRoundedUp(lv, address) ==
    LET block_bits == Log2(lv.block_size)
        set_bits == Log2(lv.num_sets) + 1
    IN ShiftRight(address, block_bits + set_bits)

\* a getTag that keeps the offset and set bits in the tag
getTagWholeAddress(lv, address) == address

getTag(lv, address) ==
    LET block_bits == Log2(lv.block_size)
        set_bits == Log2(lv.num_sets)
    IN ShiftRight(address, block_bits + set_bits)

\* an invalid-line loop that returns the highest invalid way
RECURSIVE firstInvalidFromTop(_, _, _)
firstInvalidFromTop(set, i, assoc) ==
    IF i >= assoc THEN -1
    ELSE LET above == firstInvalidFromTop(set, i + 1, assoc)
         IN IF above # -1 THEN above
            ELSE IF ~set[i].valid THEN i
            ELSE -1

\* findVictim, first loop: the lowest invalid way of the set, -1 when all are valid
RECURSIVE firstInvalid(_, _, _)
firstInvalid(set, i, assoc) ==
    IF i >= assoc THEN -1
    ELSE IF ~set[i].valid THEN i
    ELSE firstInvalid(set, i + 1, assoc)

\* an LRU loop that picks the way with the largest last_access
RECURSIVE lruScanNewest(_, _, _, _, _)
lruScanNewest(set, i, assoc, victim, min_access) ==
    IF i >= assoc THEN victim
    ELSE IF set[i].last_access > min_access
         THEN lruScanNewest(set, i + 1, assoc, i, set[i].last_access)
         ELSE lruScanNewest(set, i + 1, assoc, victim, min_access)

\* findVictim, LRU loop: the way with the smallest last_access, the lowest on ties
RECURSIVE lruScan(_, _, _, _, _)
lruScan(set, i, assoc, victim, min_access) ==
    IF i >= assoc THEN victim
    ELSE IF set[i].last_access < min_access
         THEN lruScan(set, i + 1, assoc, i, set[i].last_access)
         ELSE lruScan(set, i + 1, assoc, victim, min_access)

\* a findVictim whose FIFO branch reads the front of the queue and leaves it there
findVictimNoPop(lv, set_index) ==
    LET set == lv.sets[set_index]
        inv == firstInvalid(set, 0, lv.associativity)
    IN IF inv # -1
       THEN [victim |-> inv, fifo_queues |-> lv.fifo_queues]
       ELSE IF lv.policy = "FIFO"
            THEN [victim |-> Head(lv.fifo_queues[set_index]),
                  fifo_queues |-> lv.fifo_queues]
            ELSE [victim |-> lruScan(set, 1, lv.associativity, 0, set[0].last_access),
                  fifo_queues |-> lv.fifo_queues]

\* a findVictim whose FIFO branch takes the back of the queue
findVictimLastIn(lv, set_index) ==
    LET set == lv.sets[set_index]
        inv == firstInvalid(set, 0, lv.associativity)
        queue == lv.fifo_queues[set_index]
    IN IF inv # -1
       THEN [victim |-> inv, fifo_queues |-> lv.fifo_queues]
       ELSE IF lv.policy = "FIFO"
            THEN [victim |-> queue[Len(queue)],
                  fifo_queues |-> [lv.fifo_queues EXCEPT
                                     ![set_index] = SubSeq(@, 1, Len(@) - 1)]]
            ELSE [victim |-> lruScan(set, 1, lv.associativity, 0, set[0].last_access),
                  fifo_queues |-> lv.fifo_queues]

\* CacheLevel::findVictim: the victim way and the FIFO queues after the call
findVictim(lv, set_index) ==
    LET set == lv.sets[set_index]
        inv == firstInvalid(set, 0, lv.associativity)
    IN IF inv # -1
       THEN [victim |-> inv, fifo_queues |-> lv.fifo_queues]
       ELSE IF lv.policy = "FIFO"
            THEN [victim |-> Head(lv.fifo_queues[set_index]),
                  fifo_queues |-> [lv.fifo_queues EXCEPT ![set_index] = Tail(@)]]
            ELSE [victim |-> lruScan(set, 1, lv.associativity, 0, set[0].last_access),
                  fifo_queues |-> lv.fifo_queues]

\* a hit loop that looks at way 0 only
RECURSIVE findLineFirstWay(_, _, _, _)
findLineFirstWay(set, i, assoc, tag) ==
    IF i >= 1 THEN -1
    ELSE IF set[i].valid /\ set[i].tag = tag THEN i
    ELSE findLineFirstWay(set, i + 1, assoc, tag)

\* a hit loop that takes any valid line of the set for the address
RECURSIVE findLineAnyTag(_, _, _, _)
findLineAnyTag(set, i, assoc, tag) ==
    IF i >= assoc THEN -1
    ELSE IF set[i].valid THEN i
    ELSE findLineAnyTag(set, i + 1, assoc, tag)

\* CacheLevel::access, hit loop: the lowest way holding the tag, -1 when none
RECURSIVE findLine(_, _, _, _)
findLine(set, i, assoc, tag) ==
    IF i >= assoc THEN -1
    ELSE IF set[i].valid /\ set[i].tag = tag THEN i
    ELSE findLine(set, i + 1, assoc, tag)

\* a CacheLevel::access that charges the latency on a miss only
CacheLevel_accessFreeHit(lv, address, isWrite) ==
    LET counter == lv.access_counter + 1
        charged == [lv EXCEPT !.stats.accesses = @ + 1,
                              !.access_counter = counter]
        set_index == getSetIndex(lv, address)
        tag == getTag(lv, address)
        set == lv.sets[set_index]
        i == findLine(set, 0, lv.associativity, tag)
    IN IF i # -1
       THEN [hit |-> TRUE,
             level |-> [charged EXCEPT
                          !.stats.hits = @ + 1,
                          !.sets[set_index][i].last_access = counter,
                          !.sets[set_index][i].dirty = IF isWrite THEN TRUE ELSE @]]
       ELSE LET fv == findVictim(lv, set_index)
                victim == fv.victim
            IN [hit |-> FALSE,
                level |-> [charged EXCEPT
                             !.stats.misses = @ + 1,
                             !.stats.total_access_time = @ + lv.access_latency,
                             !.stats.write_backs =
                                 IF set[victim].valid /\ set[victim].dirty THEN @ + 1 ELSE @,
                             !.sets[set_index][victim] =
                                 [valid |-> TRUE, dirty |-> isWrite,
                                  tag |-> tag, last_access |-> counter],
                             !.fifo_queues =
                                 IF lv.policy = "FIFO"
                                 THEN [fv.fifo_queues EXCEPT ![set_index] = Append(@, victim)]
                                 ELSE fv.fifo_queues]]

\* a CacheLevel::access that counts a write-back for every valid victim
CacheLevel_accessWriteBackAnyVictim(lv, address, isWrite) ==
    LET counter == lv.access_counter + 1
        charged == [lv EXCEPT !.stats.accesses = @ + 1,
                              !.stats.total_access_time = @ + lv.access_latency,
                              !.access_counter = counter]
        set_index == getSetIndex(lv, address)
        tag == getTag(lv, address)
        set == lv.sets[set_index]
        i == findLine(set, 0, lv.associativity, tag)
    IN IF i # -1
       THEN [hit |-> TRUE,
             level |-> [charged EXCEPT
                          !.stats.hits = @ + 1,
                          !.sets[set_index][i].last_access = counter,
                          !.sets[set_index][i].dirty = IF isWrite THEN TRUE ELSE @]]
       ELSE LET fv == findVictim(lv, set_index)
                victim == fv.victim
            IN [hit |-> FALSE,
                level |-> [charged EXCEPT
                             !.stats.misses = @ + 1,
                             !.stats.write_backs =
                                 IF set[victim].valid THEN @ + 1 ELSE @,
                             !.sets[set_index][victim] =
                                 [valid |-> TRUE, dirty |-> isWrite,
                                  tag |-> tag, last_access |-> counter],
                             !.fifo_queues =
                                 IF lv.policy = "FIFO"
                                 THEN [fv.fifo_queues EXCEPT ![set_index] = Append(@, victim)]
                                 ELSE fv.fifo_queues]]

\* a CacheLevel::access whose hit stores is_write in the dirty bit
CacheLevel_accessHitOverwritesDirty(lv, address, isWrite) ==
    LET counter == lv.access_counter + 1
        charged == [lv EXCEPT !.stats.accesses = @ + 1,
                              !.stats.total_access_time = @ + lv.access_latency,
                              !.access_counter = counter]
        set_index == getSetIndex(lv, address)
        tag == getTag(lv, address)
        set == lv.sets[set_index]
        i == findLine(set, 0, lv.associativity, tag)
    IN IF i # -1
       THEN [hit |-> TRUE,
             level |-> [charged EXCEPT
                          !.stats.hits = @ + 1,
                          !.sets[set_index][i].last_access = counter,
                          !.sets[set_index][i].dirty = isWrite]]
       ELSE LET fv == findVictim(lv, set_index)
                victim == fv.victim
            IN [hit |-> FALSE,
                level |-> [charged EXCEPT
                             !.stats.misses = @ + 1,
                             !.stats.write_backs =
                                 IF set[victim].valid /\ set[victim].dirty THEN @ + 1 ELSE @,
                             !.sets[set_index][victim] =
                                 [valid |-> TRUE, dirty |-> isWrite,
                                  tag |-> tag, last_access |-> counter],
                             !.fifo_queues =
                                 IF lv.policy = "FIFO"
                                 THEN [fv.fifo_queues EXCEPT ![set_index] = Append(@, victim)]
                                 ELSE fv.fifo_queues]]

\* a CacheLevel::access whose write miss installs no line
CacheLevel_accessWriteAround(lv, address, isWrite) ==
    LET counter == lv.access_counter + 1
        charged == [lv EXCEPT !.stats.accesses = @ + 1,
                              !.stats.total_access_time = @ + lv.access_latency,
                              !.access_counter = counter]
        set_index == getSetIndex(lv, address)
        tag == getTag(lv, address)
        set == lv.sets[set_index]
        i == findLine(set, 0, lv.associativity, tag)
    IN IF i # -1
       THEN [hit |-> TRUE,
             level |-> [charged EXCEPT
                          !.stats.hits = @ + 1,
                          !.sets[set_index][i].last_access = counter,
                          !.sets[set_index][i].dirty = IF isWrite THEN TRUE ELSE @]]
       ELSE IF isWrite
       THEN [hit |-> FALSE, level |-> [charged EXCEPT !.stats.misses = @ + 1]]
       ELSE LET fv == findVictim(lv, set_index)
                victim == fv.victim
            IN [hit |-> FALSE,
                level |-> [charged EXCEPT
                             !.stats.misses = @ + 1,
                             !.stats.write_backs =
                                 IF set[victim].valid /\ set[victim].dirty THEN @ + 1 ELSE @,
                             !.sets[set_index][victim] =
                                 [valid |-> TRUE, dirty |-> isWrite,
                                  tag |-> tag, last_access |-> counter],
                             !.fifo_queues =
                                 IF lv.policy = "FIFO"
                                 THEN [fv.fifo_queues EXCEPT ![set_index] = Append(@, victim)]
                                 ELSE fv.fifo_queues]]

\* a CacheLevel::access whose hit stamps the line with the access counter
\* as it was before the call
CacheLevel_accessStampBeforeCount(lv, address, isWrite) ==
    LET counter == lv.access_counter + 1
        charged == [lv EXCEPT !.stats.accesses = @ + 1,
                              !.stats.total_access_time = @ + lv.access_latency,
                              !.access_counter = counter]
        set_index == getSetIndex(lv, address)
        tag == getTag(lv, address)
        set == lv.sets[set_index]
        i == findLine(set, 0, lv.associativity, tag)
    IN IF i # -1
       THEN [hit |-> TRUE,
             level |-> [charged EXCEPT
                          !.stats.hits = @ + 1,
                          !.sets[set_index][i].last_access = lv.access_counter,
                          !.sets[set_index][i].dirty = IF isWrite THEN TRUE ELSE @]]
       ELSE LET fv == findVictim(lv, set_index)
                victim == fv.victim
            IN [hit |-> FALSE,
                level |-> [charged EXCEPT
                             !.stats.misses = @ + 1,
                             !.stats.write_backs =
                                 IF set[victim].valid /\ set[victim].dirty THEN @ + 1 ELSE @,
                             !.sets[set_index][victim] =
                                 [valid |-> TRUE, dirty |-> isWrite,
                                  tag |-> tag, last_access |-> counter],
                             !.fifo_queues =
                                 IF lv.policy = "FIFO"
                                 THEN [fv.fifo_queues EXCEPT ![set_index] = Append(@, victim)]
                                 ELSE fv.fifo_queues]]

\* CacheLevel::access: whether it hit, and the level after the call
CacheLevel_access(lv, address, isWrite) ==
    LET counter == lv.access_counter + 1
        charged == [lv EXCEPT !.stats.accesses = @ + 1,
                              !.stats.total_access_time = @ + lv.access_latency,
                              !.access_counter = counter]
        set_index == getSetIndex(lv, address)
        tag == getTag(lv, address)
        set == lv.sets[set_index]
        i == findLine(set, 0, lv.associativity, tag)
    IN IF i # -1
       THEN [hit |-> TRUE,
             level |-> [charged EXCEPT
                          !.stats.hits = @ + 1,
                          !.sets[set_index][i].last_access = counter,
                          !.sets[set_index][i].dirty = IF isWrite THEN TRUE ELSE @]]
       ELSE LET fv == findVictim(lv, set_index)
                victim == fv.victim
            IN [hit |-> FALSE,
                level |-> [charged EXCEPT
                             !.stats.misses = @ + 1,
                             !.stats.write_backs =
                                 IF set[victim].valid /\ set[victim].dirty THEN @ + 1 ELSE @,
                             !.sets[set_index][victim] =
                                 [valid |-> TRUE, dirty |-> isWrite,
                                  tag |-> tag, last_access |-> counter],
                             !.fifo_queues =
                                 IF lv.policy = "FIFO"
                                 THEN [fv.fifo_queues EXCEPT ![set_index] = Append(@, victim)]
                                 ELSE fv.fifo_queues]]

\* a CacheLevel::resetStats that also empties the lines of the level
CacheLevel_resetStatsFlush(lv) ==
    [lv EXCEPT !.stats = CacheStats,
               !.sets = [s \in DOMAIN lv.sets |-> [k \in DOMAIN lv.sets[s] |-> CacheLine]]]

CacheLevel_resetStats(lv) == [lv EXCEPT !.stats = CacheStats]

\* -------------------------------------------------------- cache hierarchy
\* signals that end the process when an access divides by num_sets = 0
\* (integer division trap) or indexes the empty vector of sets
Signals == {"SIGFPE", "SIGSEGV"}
\* the process has not been ended by a signal
running == clast.op \notin Signals

\* history of a level that has just been built
newHistory(lv) ==
    [added_at |-> naccess,
     installed |-> [s \in DOMAIN lv.sets |-> [k \in DOMAIN lv.sets[s] |-> 0]],
     block |-> [s \in DOMAIN lv.sets |-> [k \in DOMAIN lv.sets[s] |-> -1]]]
\* history after an access to address that took the levels from old to new:
\* in a level that counted a miss, the line stamped with the new access
\* counter was installed, for the block of the address
installedAfter(h, old, new, address) ==
    [i \in 1 .. Len(h) |->
        LET isInstalled(s, k) ==
                /\ new[i].stats.misses > old[i].stats.misses
                /\ new[i].sets[s][k].last_access = new[i].access_counter
        IN [h[i] EXCEPT
              !.installed =
                  [s \in DOMAIN old[i].sets |->
                      [k \in DOMAIN old[i].sets[s] |->
                          IF isInstalled(s, k) THEN new[i].access_counter
                          ELSE h[i].installed[s][k]]],
              !.block =
                  [s \in DOMAIN old[i].sets |->
                      [k \in DOMAIN old[i].sets[s] |->
                          IF isInstalled(s, k) THEN address \div old[i].block_size
                          ELSE h[i].block[s][k]]]]]

addLevel(cfg) ==
    /\ running
    /\ Len(levels) < MaxLevels
    /\ levels' = Append(levels, CacheLevel(cfg.size, cfg.block_size, cfg.associativity,
                                          cfg.policy, cfg.latency))
    /\ initialized' = TRUE
    /\ clast' = [op |-> "addLevel", address |-> 0, isWrite |-> FALSE,
                 path |-> <<>>, cycles |-> 0]
    /\ history' = Append(history, newHistory(levels'[Len(levels')]))
    /\ UNCHANGED <<total_access_time, naccess>>
    /\ UNCHANGED vars

\* CacheLevel::access, its first three statements
charge(lv) ==
    [lv EXCEPT !.stats.accesses = @ + 1,
               !.stats.total_access_time = @ + lv.access_latency,
               !.access_counter = @ + 1]

\* a probe loop that does not return on a hit and goes on to the next level
RECURSIVE probeEveryLevel(_, _, _, _, _, _)
probeEveryLevel(lvs, i, address, isWrite, access_time, path) ==
    IF i > Len(lvs)
    THEN [levels |-> lvs, path |-> path,
          hit |-> \E k \in 1 .. Len(path) : path[k], access_time |-> access_time,
          undefined |-> FALSE]
    ELSE IF lvs[i].num_sets = 0
    THEN [levels |-> [lvs EXCEPT ![i] = charge(lvs[i])], path |-> path,
          hit |-> FALSE, access_time |-> access_time + lvs[i].access_latency,
          undefined |-> TRUE]
    ELSE LET t == access_time + lvs[i].access_latency
             r == CacheLevel_access(lvs[i], address, isWrite)
             after == [lvs EXCEPT ![i] = r.level]
         IN probeEveryLevel(after, i + 1, address, isWrite, t, Append(path, r.hit))

\* a probe loop that passes the write to the first level and reads the deeper ones
RECURSIVE probeWriteFirstLevel(_, _, _, _, _, _)
probeWriteFirstLevel(lvs, i, address, isWrite, access_time, path) ==
    IF i > Len(lvs)
    THEN [levels |-> lvs, path |-> path, hit |-> FALSE, access_time |-> access_time,
          undefined |-> FALSE]
    ELSE IF lvs[i].num_sets = 0
    THEN [levels |-> [lvs EXCEPT ![i] = charge(lvs[i])], path |-> path,
          hit |-> FALSE, access_time |-> access_time + lvs[i].access_latency,
          undefined |-> TRUE]
    ELSE LET t == access_time + lvs[i].access_latency
             r == CacheLevel_access(lvs[i], address, isWrite /\ i = 1)
             after == [lvs EXCEPT ![i] = r.level]
         IN IF r.hit
            THEN [levels |-> after, path |-> Append(path, TRUE),
                  hit |-> TRUE, access_time |-> t, undefined |-> FALSE]
            ELSE probeWriteFirstLevel(after, i + 1, address, isWrite, t, Append(path, FALSE))

\* CacheSimulator::access, the loop from level i on: the levels after the
\* call, the hit (TRUE) / miss (FALSE) marks of the levels probed, whether a
\* level hit, and the cycles accumulated. At a level with num_sets = 0 the
\* call has charged the level (CacheLevel::access, first three statements)
\* when getSetIndex evaluates "% num_sets": undefined from there on.
RECURSIVE probe(_, _, _, _, _, _)
probe(lvs, i, address, isWrite, access_time, path) ==
    IF i > Len(lvs)
    THEN [levels |-> lvs, path |-> path, hit |-> FALSE, access_time |-> access_time,
          undefined |-> FALSE]
    ELSE IF lvs[i].num_sets = 0
    THEN [levels |-> [lvs EXCEPT ![i] = charge(lvs[i])], path |-> path,
          hit |-> FALSE, access_time |-> access_time + lvs[i].access_latency,
          undefined |-> TRUE]
    ELSE LET t == access_time + lvs[i].access_latency
             r == CacheLevel_access(lvs[i], address, isWrite)
             after == [lvs EXCEPT ![i] = r.level]
         IN IF r.hit
            THEN [levels |-> after, path |-> Append(path, TRUE),
                  hit |-> TRUE, access_time |-> t, undefined |-> FALSE]
            ELSE probe(after, i + 1, address, isWrite, t, Append(path, FALSE))

\* a CacheSimulator::access that adds memory_latency on a hit too
CacheSimulator_accessAlwaysMemory(address, isWrite) ==
    /\ running
    /\ naccess < MaxAccess
    /\ LET r == probe(levels, 1, address, isWrite, 0, <<>>)
           access_time == r.access_time + MemoryLatency
       IN /\ levels' = r.levels
          /\ history' = installedAfter(history, levels, r.levels, address)
          /\ IF r.undefined
             THEN /\ \E signal \in Signals :
                        clast' = [op |-> signal, address |-> address, isWrite |-> isWrite,
                                  path |-> r.path, cycles |-> 0]
                  /\ UNCHANGED total_access_time
             ELSE /\ total_access_time' = total_access_time + access_time
                  /\ clast' = [op |-> "access", address |-> address, isWrite |-> isWrite,
                               path |-> r.path, cycles |-> access_time]
    /\ naccess' = naccess + 1
    /\ UNCHANGED initialized
    /\ UNCHANGED vars

\* a CacheSimulator::access that adds the cycles of a hit to no total
CacheSimulator_accessHitUncounted(address, isWrite) ==
    /\ running
    /\ naccess < MaxAccess
    /\ LET r == probe(levels, 1, address, isWrite, 0, <<>>)
           access_time == IF r.hit THEN r.access_time ELSE r.access_time + MemoryLatency
       IN /\ levels' = r.levels
          /\ history' = installedAfter(history, levels, r.levels, address)
          /\ IF r.undefined
             THEN /\ \E signal \in Signals :
                        clast' = [op |-> signal, address |-> address, isWrite |-> isWrite,
                                  path |-> r.path, cycles |-> 0]
                  /\ UNCHANGED total_access_time
             ELSE /\ total_access_time' = IF r.hit THEN total_access_time
                                         ELSE total_access_time + access_time
                  /\ clast' = [op |-> "access", address |-> address, isWrite |-> isWrite,
                               path |-> r.path, cycles |-> access_time]
    /\ naccess' = naccess + 1
    /\ UNCHANGED initialized
    /\ UNCHANGED vars

CacheSimulator_access(address, isWrite) ==
    /\ running
    /\ naccess < MaxAccess
    /\ LET r == probe(levels, 1, address, isWrite, 0, <<>>)
           access_time == IF r.hit THEN r.access_time ELSE r.access_time + MemoryLatency
       IN /\ levels' = r.levels
          /\ history' = installedAfter(history, levels, r.levels, address)
          /\ IF r.undefined
             THEN /\ \E signal \in Signals :
                        clast' = [op |-> signal, address |-> address, isWrite |-> isWrite,
                                  path |-> r.path, cycles |-> 0]
                  /\ UNCHANGED total_access_time
             ELSE /\ total_access_time' = total_access_time + access_time
                  /\ clast' = [op |-> "access", address |-> address, isWrite |-> isWrite,
                               path |-> r.path, cycles |-> access_time]
    /\ naccess' = naccess + 1
    /\ UNCHANGED initialized
    /\ UNCHANGED vars

\* a CacheSimulator::resetStats that resets the first level only
CacheSimulator_resetStatsFirstLevel ==
    /\ running
    /\ levels' = [i \in 1 .. Len(levels) |->
                    IF i = 1 THEN CacheLevel_resetStats(levels[i]) ELSE levels[i]]
    /\ clast' = [op |-> "resetStats", address |-> 0, isWrite |-> FALSE,
                 path |-> <<>>, cycles |-> 0]
    /\ UNCHANGED <<initialized, total_access_time, naccess, history>>
    /\ UNCHANGED vars

CacheSimulator_resetStats ==
    /\ running
    /\ levels' = [i \in 1 .. Len(levels) |-> CacheLevel_resetStats(levels[i])]
    /\ clast' = [op |-> "resetStats", address |-> 0, isWrite |-> FALSE,
                 path |-> <<>>, cycles |-> 0]
    /\ UNCHANGED <<initialized, total_access_time, naccess, history>>
    /\ UNCHANGED vars

CacheNext ==
    \/ \E cfg \in LevelConfigs : addLevel(cfg)
    \/ \E address \in Addresses, isWrite \in BOOLEAN : CacheSimulator_access(address, isWrite)
    \/ CacheSimulator_resetStats

\* the state after construction and one addLevel call
InitSet ==
    /\ chain = <<>>
    /\ total_size = 0
    /\ strategy = "FIRST_FIT"
    /\ next_block_id = 1
    /\ stats = AllocationStats
    /\ last = [op |-> "new", arg |-> 0, ret |-> 0]
    /\ issued = <<>>
    /\ \E cfg \in SetConfigs :
          /\ levels = <<CacheLevel(cfg.size, cfg.block_size, cfg.associativity,
                                   cfg.policy, cfg.latency)>>
          /\ history = <<[added_at |-> 0,
                          installed |-> [s \in DOMAIN levels[1].sets |->
                                            [k \in DOMAIN levels[1].sets[s] |-> 0]],
                          block |-> [s \in DOMAIN levels[1].sets |->
                                        [k \in DOMAIN levels[1].sets[s] |-> -1]]]>>
    /\ initialized = TRUE
    /\ total_access_time = 0
    /\ clast = [op |-> "addLevel", address |-> 0, isWrite |-> FALSE, path |-> <<>>, cycles |-> 0]
    /\ naccess = 0

\* CacheSimulator::access on the hierarchy of one level
CacheSimulator_accessOneLevel(address, isWrite) ==
    /\ running
    /\ naccess < MaxSetAccess
    /\ LET r == probe(levels, 1, address, isWrite, 0, <<>>)
           access_time == IF r.hit THEN r.access_time ELSE r.access_time + MemoryLatency
       IN /\ levels' = r.levels
          /\ history' = installedAfter(history, levels, r.levels, address)
          /\ IF r.undefined
             THEN /\ \E signal \in Signals :
                        clast' = [op |-> signal, address |-> address, isWrite |-> isWrite,
                                  path |-> r.path, cycles |-> 0]
                  /\ UNCHANGED total_access_time
             ELSE /\ total_access_time' = total_access_time + access_time
                  /\ clast' = [op |-> "access", address |-> address, isWrite |-> isWrite,
                               path |-> r.path, cycles |-> access_time]
    /\ naccess' = naccess + 1
    /\ UNCHANGED initialized
    /\ UNCHANGED vars

SetNext ==
    \/ \E address \in Addresses, isWrite \in BOOLEAN :
          CacheSimulator_accessOneLevel(address, isWrite)
    \/ CacheSimulator_resetStats

\* the state after construction and one addLevel call for a level of three sets
InitAlias ==
    /\ chain = <<>>
    /\ total_size = 0
    /\ strategy = "FIRST_FIT"
    /\ next_block_id = 1
    /\ stats = AllocationStats
    /\ last = [op |-> "new", arg |-> 0, ret |-> 0]
    /\ issued = <<>>
    /\ \E cfg \in AliasConfigs :
          /\ levels = <<CacheLevel(cfg.size, cfg.block_size, cfg.associativity,
                                   cfg.policy, cfg.latency)>>
          /\ history = <<[added_at |-> 0,
                          installed |-> [s \in DOMAIN levels[1].sets |->
                                            [k \in DOMAIN levels[1].sets[s] |-> 0]],
                          block |-> [s \in DOMAIN levels[1].sets |->
                                        [k \in DOMAIN levels[1].sets[s] |-> -1]]]>>
    /\ initialized = TRUE
    /\ total_access_time = 0
    /\ clast = [op |-> "addLevel", address |-> 0, isWrite |-> FALSE, path |-> <<>>, cycles |-> 0]
    /\ naccess = 0

AliasNext ==
    \/ \E address \in AliasAddresses, isWrite \in BOOLEAN :
          CacheSimulator_accessOneLevel(address, isWrite)
    \/ CacheSimulator_resetStats

GeometryNext ==
    \/ \E cfg \in GeometryConfigs : addLevel(cfg)
    \/ \E address \in Addresses, isWrite \in BOOLEAN : CacheSimulator_access(address, isWrite)
    \/ CacheSimulator_resetStats

\* the allocator runs, the cache stays as constructed
Spec == Init /\ [][Next]_<<vars, cvars>>

\* the cache runs, the allocator stays as constructed
SpecCache == Init /\ [][CacheNext]_<<vars, cvars>>

\* one level, added before the first access, is accessed and reset
SpecSet == InitSet /\ [][SetNext]_<<vars, cvars>>

\* the cache runs with level sizes that are not a power of two or do not
\* divide evenly
SpecGeometry == Init /\ [][GeometryNext]_<<vars, cvars>>

\* one level of three sets, added before the first access, is accessed and reset
SpecAlias == InitAlias /\ [][AliasNext]_<<vars, cvars>>

\* ------------------------------------------------------------ properties
Nodes == 1 .. Len(chain)
Used == {i \in Nodes : ~chain[i].is_free}
Free == {i \in Nodes : chain[i].is_free}

\* the step is a successful allocate (its return value is the new id)
AllocatedStep == last'.op = "allocate" /\ last'.ret > 0
\* the free nodes of the chain before the step that can hold the request
Fits == {i \in Nodes : chain[i].is_free /\ chain[i].size >= last'.arg}
\* the request was placed at the start of node i of the chain before the step
PlacedIn(i) ==
    \E k \in 1 .. Len(chain') :
        /\ chain'[k].block_id = last'.ret
        /\ ~chain'[k].is_free
        /\ chain'[k].address = chain[i].address
\* after a successful allocate of size 1 the chain has exactly this layout;
\* layout[k] = <<size, is_free>> and the node at position at holds the new id
LayoutAfterAllocate(strat, layout, at) ==
    /\ last.op = "allocate" /\ last.ret > 0 /\ last.arg = 1
    /\ strategy = strat
    /\ Len(chain) = Len(layout)
    /\ \A k \in 1 .. Len(layout) :
          chain[k].size = layout[k][1] /\ chain[k].is_free = layout[k][2]
    /\ chain[at].block_id = last.ret

\* C1: once initMemory has been called, no two adjacent nodes of the block
\* chain are both free, whatever calls were made since.
NoAdjacentFree ==
    isInitialized =>
        \A i \in 1 .. Len(chain) - 1 : ~(chain[i].is_free /\ chain[i + 1].is_free)

\* C1 witness: a free call succeeded and left a free node between two used
\* nodes, after at least two blocks have been freed.
NoAdjacentFreeWitness ==
    /\ last.op = "free" /\ last.ret = 1
    /\ stats.num_deallocations >= 2
    /\ \E i \in 2 .. Len(chain) - 1 :
          chain[i].is_free /\ ~chain[i - 1].is_free /\ ~chain[i + 1].is_free

\* C2: once initialized, the chain starts at address 0, every node's successor
\* starts where the node ends, and the sizes add up to total_size.
ChainContiguous ==
    isInitialized =>
        /\ chain[1].address = 0
        /\ \A i \in 1 .. Len(chain) - 1 :
              chain[i + 1].address = chain[i].address + chain[i].size
        /\ chain[Len(chain)].address + chain[Len(chain)].size = total_size
        /\ sumSizes(chain, 1, TRUE) + sumSizes(chain, 1, FALSE) = total_size

\* C2 witness: a chain of at least four nodes reached through splits and a
\* successful free.
ChainContiguousWitness ==
    /\ Len(chain) >= 4
    /\ last.op = "free" /\ last.ret = 1
    /\ Cardinality(Used) >= 2

\* C3: once initialized, the stats snapshot holds the sums of the used and of
\* the free node sizes of the current chain, and they add up to total_memory.
StatsFresh ==
    isInitialized =>
        /\ stats.used_memory = sumSizes(chain, 1, FALSE)
        /\ stats.free_memory = sumSizes(chain, 1, TRUE)
        /\ stats.used_memory + stats.free_memory = stats.total_memory
        /\ stats.total_memory = total_size

\* C3 witness: an allocate has just failed for lack of a block while used and
\* free memory are both non-zero.
StatsFreshWitness ==
    /\ last.op = "allocate" /\ last.ret = -1 /\ last.arg > 0
    /\ stats.allocation_failures >= 1
    /\ stats.used_memory > 0 /\ stats.free_memory > 0
    /\ stats.num_deallocations >= 1

\* C4: every node of the block chain has size > 0.
AllSizesPositive == \A i \in 1 .. Len(chain) : chain[i].size > 0

\* C5: between two initMemory calls the k-th successful allocate returns k,
\* whatever failed allocates and frees happen in between, and next_block_id is
\* the number of ids handed out plus one.
IdsSequential ==
    /\ \A k \in 1 .. Len(issued) : issued[k] = k
    /\ next_block_id = Len(issued) + 1

\* C5 witness: the fourth successful allocate has just returned, after a failed
\* allocate (no block was large enough) and a successful free since the last
\* initMemory.
IdsSequentialWitness ==
    /\ last.op = "allocate" /\ last.ret = 4
    /\ Len(issued) = 4
    /\ stats.allocation_failures >= 1
    /\ stats.num_deallocations >= 1

\* C6: a node is free exactly when its block_id is -1, and the used nodes
\* carry pairwise distinct ids in [1, next_block_id).
IdsMarkUsedNodes ==
    /\ \A i \in Nodes : chain[i].is_free <=> chain[i].block_id = -1
    /\ \A i \in Used : chain[i].block_id >= 1 /\ chain[i].block_id < next_block_id
    /\ \A i, j \in Used : chain[i].block_id = chain[j].block_id => i = j

\* C6 witness: a free call succeeded and the chain still holds two used nodes
\* and a free node.
IdsMarkUsedNodesWitness ==
    /\ last.op = "free" /\ last.ret = 1
    /\ Cardinality(Used) >= 2
    /\ Cardinality(Free) >= 1

\* C7: under first-fit a successful allocate places the request in the
\* lowest-address free node that is large enough.
FirstFitLowestAddress ==
    [][(AllocatedStep /\ strategy = "FIRST_FIT") =>
          \E i \in Fits :
              /\ \A j \in Fits : chain[i].address <= chain[j].address
              /\ PlacedIn(i)]_vars

\* C7 witness: free nodes of sizes 3 (address 0) and 2 (address 5), a first-fit
\* request of 1 went into the 3-node although the 2-node is the tighter fit.
FirstFitWitness ==
    LayoutAfterAllocate("FIRST_FIT",
        <<<<1, FALSE>>, <<2, TRUE>>, <<2, FALSE>>, <<2, TRUE>>>>, 1)

\* C8: under best-fit a successful allocate places the request in a free node
\* of minimum size among those large enough, the lowest-address one of them.
BestFitSmallest ==
    [][(AllocatedStep /\ strategy = "BEST_FIT") =>
          \E i \in Fits :
              /\ \A j \in Fits :
                    \/ chain[i].size < chain[j].size
                    \/ chain[i].size = chain[j].size
                       /\ chain[i].address <= chain[j].address
              /\ PlacedIn(i)]_vars

\* C8 witness: free nodes of sizes 3 (address 0) and 2 (address 5), a best-fit
\* request of 1 went into the 2-node although the 3-node comes first.
BestFitWitness ==
    LayoutAfterAllocate("BEST_FIT",
        <<<<3, TRUE>>, <<2, FALSE>>, <<1, FALSE>>, <<1, TRUE>>>>, 3)

\* C9: under worst-fit a successful allocate places the request in a free node
\* of maximum size among those large enough, the lowest-address one of them.
WorstFitLargest ==
    [][(AllocatedStep /\ strategy = "WORST_FIT") =>
          \E i \in Fits :
              /\ \A j \in Fits :
                    \/ chain[i].size > chain[j].size
                    \/ chain[i].size = chain[j].size
                       /\ chain[i].address <= chain[j].address
              /\ PlacedIn(i)]_vars

\* C9 witness: free nodes of sizes 2 (address 0) and 3 (address 4), a worst-fit
\* request of 1 went into the 3-node although the 2-node comes first.
WorstFitWitness ==
    LayoutAfterAllocate("WORST_FIT",
        <<<<2, TRUE>>, <<2, FALSE>>, <<1, FALSE>>, <<2, TRUE>>>>, 3)

\* C10: a successful allocate(size) turns one free node (address a, capacity
\* c >= size) into a used node (a, size) with the returned id, followed by a
\* new free node (a + size, c - size) when c > size and by nothing new when
\* c = size; every other node is unchanged.
AllocateSplits ==
    [][AllocatedStep =>
          \E i \in Fits :
              LET a == chain[i].address
                  c == chain[i].size
                  size == last'.arg
                  d == IF c > size THEN 1 ELSE 0
              IN /\ Len(chain') = Len(chain) + d
                 /\ \A j \in 1 .. i - 1 : chain'[j] = chain[j]
                 /\ chain'[i] = [address |-> a, size |-> size,
                                 is_free |-> FALSE, block_id |-> last'.ret]
                 /\ d = 1 => chain'[i + 1] = [address |-> a + size, size |-> c - size,
                                              is_free |-> TRUE, block_id |-> -1]
                 /\ \A j \in i + 1 .. Len(chain) : chain'[j + d] = chain[j]]_vars

\* C10 witness: an exact fit; the new used node of size 2 lies between two
\* used nodes, so no remainder node was created.
AllocateSplitsWitness ==
    /\ last.op = "allocate" /\ last.ret > 0 /\ last.arg = 2
    /\ \E k \in 2 .. Len(chain) - 1 :
          /\ chain[k].block_id = last.ret /\ chain[k].size = 2
          /\ ~chain[k - 1].is_free /\ ~chain[k + 1].is_free

\* the used nodes of the chain before the step that hold the id passed to free
HeldBy(id) == {i \in Used : chain[i].block_id = id}

RECURSIVE SumOfSizes(_)
SumOfSizes(S) ==
    IF S = {} THEN 0
    ELSE LET i == CHOOSE x \in S : TRUE IN chain[i].size + SumOfSizes(S \ {i})

\* C11: allocate(size) with size > 0 on an initialized allocator in which no
\* free node has size >= size returns -1 and adds exactly 1 to
\* allocation_failures; the chain, next_block_id, strategy, total_size and
\* every other stats field stay as they were.
OutOfMemoryCountsOnce ==
    [][(last'.op = "allocate" /\ last'.arg > 0 /\ isInitialized /\ Fits = {}) =>
          /\ last'.ret = -1
          /\ stats' = [stats EXCEPT !.allocation_failures = @ + 1]
          /\ UNCHANGED <<chain, next_block_id, total_size, strategy, issued>>]_vars

\* C11 witness: an allocate has just failed on a non-empty memory that is
\* completely in use, and it is the only failure counted.
OutOfMemoryWitness ==
    /\ last.op = "allocate" /\ last.ret = -1 /\ last.arg > 0
    /\ total_size > 0 /\ stats.free_memory = 0
    /\ stats.allocation_failures = 1

\* C12: allocate before initMemory, allocate(0), free before initMemory and
\* free of an id that no used node holds return the failure value and leave
\* the chain, next_block_id, strategy, total_size and all stats unchanged.
FailedCallsChangeNothing ==
    [][(\/ last'.op = "allocate" /\ (~isInitialized \/ last'.arg = 0)
        \/ last'.op = "free" /\ (~isInitialized \/ HeldBy(last'.arg) = {})) =>
          /\ last'.ret = IF last'.op = "allocate" THEN -1 ELSE 0
          /\ UNCHANGED <<chain, next_block_id, strategy, total_size, stats, issued>>]_vars

\* C12 witness: a double free; the id was handed out since the last
\* initMemory, no node holds it any more, and free has just returned false.
DoubleFreeWitness ==
    /\ last.op = "free" /\ last.ret = 0
    /\ \E k \in 1 .. Len(issued) : issued[k] = last.arg
    /\ \A i \in Nodes : chain[i].block_id # last.arg
    /\ Cardinality(Used) >= 1

\* C13: a successful free(id) replaces the used node holding id, together
\* with its free predecessor and its free successor where they exist, by one
\* free node that starts at the lowest of their addresses and has the sum of
\* their sizes; all other nodes are unchanged and num_deallocations grows by 1.
FreeMerges ==
    [][(last'.op = "free" /\ last'.ret = 1) =>
          \E i \in HeldBy(last'.arg) :
              LET lo == IF i > 1 /\ chain[i - 1].is_free THEN i - 1 ELSE i
                  hi == IF i < Len(chain) /\ chain[i + 1].is_free THEN i + 1 ELSE i
                  merged == [address |-> chain[lo].address,
                             size |-> SumOfSizes(lo .. hi),
                             is_free |-> TRUE, block_id |-> -1]
              IN /\ chain' = SubSeq(chain, 1, lo - 1) \o <<merged>>
                               \o SubSeq(chain, hi + 1, Len(chain))
                 /\ stats'.num_deallocations = stats.num_deallocations + 1]_vars

\* C13 witness: four blocks were allocated and two freed; the second free has
\* just merged its block with the first one's into the only free node, which
\* lies between the two remaining used nodes.
FreeMergesWitness ==
    /\ last.op = "free" /\ last.ret = 1
    /\ stats.num_allocations = 4 /\ stats.num_deallocations = 2
    /\ Len(chain) = 3
    /\ ~chain[1].is_free /\ chain[2].is_free /\ ~chain[3].is_free

\* C14: whenever an initialized allocator holds no used node, the chain is the
\* single free node [0, total_size) and external_fragmentation is 0.
AllFreedOneNode ==
    (isInitialized /\ Used = {}) =>
        /\ chain = <<[address |-> 0, size |-> total_size,
                      is_free |-> TRUE, block_id |-> -1]>>
        /\ stats.external_fragmentation.num = 0

\* C14 witness: the last of at least three blocks has just been freed.
AllFreedWitness ==
    /\ last.op = "free" /\ last.ret = 1
    /\ Used = {}
    /\ stats.num_deallocations >= 3

\* free nodes of sizes 200, 150, 150 separated by two used nodes
FragExampleChain ==
    <<[address |-> 0,   size |-> 200, is_free |-> TRUE,  block_id |-> -1],
      [address |-> 200, size |-> 10,  is_free |-> FALSE, block_id |-> 1],
      [address |-> 210, size |-> 150, is_free |-> TRUE,  block_id |-> -1],
      [address |-> 360, size |-> 10,  is_free |-> FALSE, block_id |-> 2],
      [address |-> 370, size |-> 150, is_free |-> TRUE,  block_id |-> -1]>>

InitMemoryResets ==
    [][last'.op = "initMemory" =>
          /\ chain' = <<[address |-> 0, size |-> last'.arg,
                         is_free |-> TRUE, block_id |-> -1]>>
          /\ next_block_id' = 1
          /\ total_size' = last'.arg
          /\ stats'.total_memory = last'.arg /\ stats'.free_memory = last'.arg
          /\ stats'.used_memory = 0 /\ stats'.num_allocations = 0
          /\ stats'.num_deallocations = 0 /\ stats'.allocation_failures = 0
          /\ stats'.external_fragmentation.num = 0]_vars

\* C16 witness: initMemory has just run on an allocator whose strategy had
\* been changed, i.e. not on a fresh one.
InitMemoryWitness ==
    /\ last.op = "initMemory" /\ last.arg > 0
    /\ strategy = "BEST_FIT"

\* C17: allocate(size) with size > 0 on an initialized allocator fails exactly
\* when every free node is smaller than size, and whether a suitable node
\* exists is the same for first-fit, best-fit and worst-fit.
FailsIffLargestTooSmall ==
    /\ [][(last'.op = "allocate" /\ last'.arg > 0 /\ isInitialized) =>
            (last'.ret = -1 <=> \A i \in Free : chain[i].size < last'.arg)]_vars
    /\ [](\A size \in AllocSizes \ {0} :
            /\ (firstFit(chain, size) = 0) <=> (bestFit(chain, size) = 0)
            /\ (firstFit(chain, size) = 0) <=> (worstFit(chain, size) = 0))

\* C17 witness: an allocate has just failed although the free nodes together
\* hold at least the requested size.
FragmentedFailureWitness ==
    /\ last.op = "allocate" /\ last.ret = -1 /\ last.arg > 0
    /\ isInitialized
    /\ stats.free_memory >= last.arg

\* ------------------------------------------------------- cache properties
\* the step is a CacheSimulator::access call
AccessStep == clast'.op = "access"
\* the level holds a valid line for the block of this address
Resident(lv, address) ==
    \E i \in 0 .. lv.associativity - 1 :
        /\ lv.sets[getSetIndex(lv, address)][i].valid
        /\ lv.sets[getSetIndex(lv, address)][i].tag = getTag(lv, address)
\* the first level of the hierarchy before the step that holds the address,
\* Len(levels) + 1 when none does
FirstHolder(address) ==
    IF \E i \in 1 .. Len(levels) : Resident(levels[i], address)
    THEN CHOOSE i \in 1 .. Len(levels) :
            /\ Resident(levels[i], address)
            /\ \A j \in 1 .. i - 1 : ~Resident(levels[j], address)
    ELSE Len(levels) + 1

RECURSIVE LatencySum(_)
LatencySum(n) == IF n = 0 THEN 0 ELSE levels[n].access_latency + LatencySum(n - 1)

\* C18: an access probes the levels in the order they were added and stops at
\* the first level that holds the address: every level before it records one
\* access and one miss, that level records one access and one hit, and every
\* level after it is left exactly as it was.
ProbeStopsAtFirstHit ==
    [][AccessStep =>
          LET h == FirstHolder(clast'.address) IN
          /\ Len(levels') = Len(levels)
          /\ clast'.path = [i \in 1 .. (IF h > Len(levels) THEN Len(levels) ELSE h) |-> i = h]
          /\ \A i \in 1 .. Len(levels) :
                /\ i < h => /\ levels'[i].stats.accesses = levels[i].stats.accesses + 1
                            /\ levels'[i].stats.misses = levels[i].stats.misses + 1
                            /\ levels'[i].stats.hits = levels[i].stats.hits
                /\ i = h => /\ levels'[i].stats.accesses = levels[i].stats.accesses + 1
                            /\ levels'[i].stats.hits = levels[i].stats.hits + 1
                            /\ levels'[i].stats.misses = levels[i].stats.misses
                /\ i > h => levels'[i] = levels[i]]_cvars

\* C18 witness: a hierarchy of two levels, the access has just hit in the
\* first one, and the second level has been accessed before.
ProbeStopsWitness ==
    /\ clast.op = "access" /\ clast.path = <<TRUE>>
    /\ Len(levels) = 2
    /\ levels[2].stats.accesses >= 1

\* C19: an access costs the latencies of the levels it probed, plus
\* memory_latency exactly when no level hit, and total_access_time grows by
\* that cost.
AccessCost ==
    [][AccessStep =>
          LET n == Len(clast'.path)
              hit == n > 0 /\ clast'.path[n]
              cost == LatencySum(n) + (IF hit THEN 0 ELSE MemoryLatency)
          IN /\ n <= Len(levels)
             /\ ~hit => n = Len(levels)
             /\ clast'.cycles = cost
             /\ total_access_time' = total_access_time + cost]_cvars

\* C19 witness: L1 latency 1, L2 latency 10; the access has just missed in L1
\* and hit in L2 for 11 cycles, after an access that missed in both levels
\* for 111 cycles.
AccessCostWitness ==
    /\ clast.op = "access" /\ clast.path = <<FALSE, TRUE>>
    /\ clast.cycles = 11
    /\ total_access_time = 111 + 11

\* C20: at every level hits + misses = accesses and total_access_time =
\* accesses * access_latency; an access changes a level's stats either not at
\* all or by one access, access_latency cycles and one hit or one miss.
LevelStatsConsistent ==
    /\ [](\A i \in 1 .. Len(levels) :
            /\ levels[i].stats.hits + levels[i].stats.misses = levels[i].stats.accesses
            /\ levels[i].stats.total_access_time
                   = levels[i].stats.accesses * levels[i].access_latency)
    /\ [][AccessStep =>
            \A i \in 1 .. Len(levels) :
                LET old == levels[i].stats
                    new == levels'[i].stats
                IN \/ new = old
                   \/ /\ new.accesses = old.accesses + 1
                      /\ new.total_access_time = old.total_access_time + levels[i].access_latency
                      /\ \/ new.hits = old.hits + 1 /\ new.misses = old.misses
                         \/ new.hits = old.hits /\ new.misses = old.misses + 1]_cvars

\* C20 witness: two levels, the first has counted one hit and one miss, the
\* second only the miss, and both have been charged their latency per access.
LevelStatsWitness ==
    /\ Len(levels) = 2
    /\ levels[1].stats.hits = 1 /\ levels[1].stats.misses = 1
    /\ levels[2].stats.hits = 0 /\ levels[2].stats.misses = 1
    /\ levels[1].stats.total_access_time = 2 * levels[1].access_latency
    /\ levels[2].stats.total_access_time = levels[2].access_latency

\* every level of the hierarchy was added before the first access
AllAddedFirst == \A i \in 1 .. Len(history) : history[i].added_at = 0

\* C21: when all levels are added before the first access, the accesses of
\* level i+1 equal the misses of level i in every reachable state, also after
\* resetStats; the first level counts every hierarchy access (one more
\* per access, 0 after a reset), and an access that hits in L2 counts one L1
\* miss and one L2 hit.
MissesFeedNextLevel ==
    /\ [](AllAddedFirst =>
            \A i \in 1 .. Len(levels) - 1 :
                levels[i + 1].stats.accesses = levels[i].stats.misses)
    /\ [][(AllAddedFirst /\ Len(levels) >= 1 /\ Len(levels') = Len(levels)) =>
            /\ clast'.op = "access" =>
                  levels'[1].stats.accesses = levels[1].stats.accesses + 1
            /\ clast'.op = "resetStats" => levels'[1].stats.accesses = 0
            /\ (clast'.op = "access" /\ clast'.path = <<FALSE, TRUE>>) =>
                  /\ levels'[1].stats.misses = levels[1].stats.misses + 1
                  /\ levels'[1].stats.hits = levels[1].stats.hits
                  /\ levels'[2].stats.hits = levels[2].stats.hits + 1
                  /\ levels'[2].stats.misses = levels[2].stats.misses]_cvars

\* C21 witness: two levels added before the first access, the stats reset
\* after it, and the second access has just missed in L1 and hit in L2.
MissesFeedWitness ==
    /\ Len(levels) = 2 /\ AllAddedFirst
    /\ clast.op = "access" /\ clast.path = <<FALSE, TRUE>>
    /\ levels[1].access_counter = 2
    /\ levels[1].stats.accesses = 1 /\ levels[1].stats.misses = 1
    /\ levels[2].stats.accesses = 1 /\ levels[2].stats.hits = 1

\* the levels probed by the access of this step
Probed == 1 .. Len(clast'.path)
\* address x is resident at level i before / after the step
In(i, x) == Resident(levels[i], x)
InAfter(i, x) == Resident(levels'[i], x)
\* addresses a and x share a set and differ in tag at level lv
Conflict(lv, a, x) ==
    /\ getSetIndex(lv, a) = getSetIndex(lv, x)
    /\ getTag(lv, a) # getTag(lv, x)

\* C22: in a direct-mapped level an access to a hits exactly when a's line
\* is resident and leaves it resident; it removes every resident address
\* that shares a's set with a different tag, and leaves every address of
\* another set as it was. So accesses to a keep hitting until the first
\* conflicting access, after which the next access to a misses.
DirectMappedConflict ==
    [][AccessStep =>
          \A i \in Probed :
              levels[i].associativity = 1 =>
                  LET a == clast'.address IN
                  /\ clast'.path[i] = In(i, a)
                  /\ InAfter(i, a)
                  /\ \A x \in Addresses :
                        /\ Conflict(levels[i], a, x) => ~InAfter(i, x)
                        /\ getSetIndex(levels[i], a) # getSetIndex(levels[i], x)
                              => (InAfter(i, x) = In(i, x))]_cvars

\* C22 witness: a direct-mapped level of two sets after four accesses to
\* addresses 0 and 2 only (set 1 is still empty): one of them hit, and the
\* fourth, to address 0, has just missed and installed its line again.
DirectMappedWitness ==
    /\ Len(levels) = 1 /\ levels[1].associativity = 1
    /\ clast.op = "access" /\ clast.address = 0 /\ clast.path = <<FALSE>>
    /\ levels[1].stats.accesses = 4 /\ levels[1].stats.hits = 1
    /\ ~levels[1].sets[1][0].valid
    /\ history[1].installed[0][0] = 4

\* the ways of a level
Ways(lv) == 0 .. lv.associativity - 1
\* every line of set s of level lv is valid
Full(lv, s) == \A k \in Ways(lv) : lv.sets[s][k].valid
\* the step is an access that missed at level i in a set that was full
MissInFullSet(i) ==
    /\ AccessStep /\ i \in Probed /\ ~clast'.path[i]
    /\ Full(levels[i], getSetIndex(levels[i], clast'.address))
\* way v of set s at level i takes the tag of the access of this step and every
\* other way of the set keeps its line
Replaces(i, s, v) ==
    /\ levels'[i].sets[s][v].valid
    /\ levels'[i].sets[s][v].tag = getTag(levels[i], clast'.address)
    /\ \A k \in Ways(levels[i]) \ {v} : levels'[i].sets[s][k] = levels[i].sets[s][k]
\* level 1 is one two-way set holding tag A in way 0 and tag B in way 1 after
\* the accesses A, B, A
AfterABA ==
    /\ Len(levels) = 1 /\ levels[1].associativity = 2 /\ levels[1].num_sets = 1
    /\ levels[1].access_counter = 3
    /\ history[1].installed[0] = [k \in 0 .. 1 |-> k + 1]
    /\ levels[1].sets[0][0].last_access = 3
    /\ levels[1].sets[0][1].last_access = 2

\* C23: under LRU a miss in a full set replaces a line whose last access
\* (install or hit) is the oldest of the set and no other line; after A, B, A
\* in a two-way set the access C replaces B and keeps A.
LruEvictsOldestAccess ==
    [][\A i \in 1 .. Len(levels) :
          (MissInFullSet(i) /\ levels[i].policy = "LRU") =>
              LET s == getSetIndex(levels[i], clast'.address) IN
              /\ \E v \in Ways(levels[i]) :
                    /\ Replaces(i, s, v)
                    /\ \A k \in Ways(levels[i]) :
                          /\ levels[i].sets[s][v].last_access <= levels[i].sets[s][k].last_access
                          /\ history[i].installed[s][k] <= levels[i].sets[s][k].last_access
              /\ AfterABA =>
                    /\ levels'[1].sets[0][0].tag = levels[1].sets[0][0].tag
                    /\ levels'[1].sets[0][1].tag = getTag(levels[1], clast'.address)]_cvars

\* C23 witness: an LRU level of one two-way set after the accesses 0, 1, 0, 2:
\* tag 1 is gone, way 0 holds tag 0 (last accessed third) and way 1 holds
\* tag 2, installed fourth.
LruWitness ==
    /\ Len(levels) = 1 /\ levels[1].policy = "LRU" /\ levels[1].associativity = 2
    /\ clast.op = "access" /\ clast.address = 2 /\ clast.path = <<FALSE>>
    /\ levels[1].access_counter = 4
    /\ levels[1].sets[0][0].tag = 0 /\ levels[1].sets[0][0].last_access = 3
    /\ levels[1].sets[0][1].tag = 2
    /\ history[1].installed[0] = [k \in 0 .. 1 |-> IF k = 0 THEN 1 ELSE 4]

\* C24: under FIFO a miss in a full set replaces the line that was installed
\* earliest among the lines of the set and no other line, and a hit leaves
\* the queues as they are; after A, B, A in a two-way set the access C
\* replaces A and keeps B.
FifoEvictsFirstInstalled ==
    [][\A i \in 1 .. Len(levels) :
          levels[i].policy = "FIFO" =>
              /\ (AccessStep /\ i \in Probed /\ clast'.path[i]) =>
                    /\ levels'[i].fifo_queues = levels[i].fifo_queues
                    /\ history'[i].installed = history[i].installed
              /\ MissInFullSet(i) =>
                    LET s == getSetIndex(levels[i], clast'.address) IN
                    /\ \E v \in Ways(levels[i]) :
                          /\ Replaces(i, s, v)
                          /\ \A k \in Ways(levels[i]) \ {v} :
                                history[i].installed[s][v] < history[i].installed[s][k]
                    /\ AfterABA =>
                          /\ levels'[1].sets[0][0].tag = getTag(levels[1], clast'.address)
                          /\ levels'[1].sets[0][1].tag = levels[1].sets[0][1].tag]_cvars

\* C24 witness: a FIFO level of one two-way set after the accesses 0, 1, 0, 2:
\* the third access hit, tag 0 is gone, way 0 holds tag 2, installed fourth,
\* and way 1 still holds tag 1, installed second.
FifoWitness ==
    /\ Len(levels) = 1 /\ levels[1].policy = "FIFO" /\ levels[1].associativity = 2
    /\ clast.op = "access" /\ clast.address = 2 /\ clast.path = <<FALSE>>
    /\ levels[1].stats.accesses = 4 /\ levels[1].stats.hits = 1
    /\ levels[1].sets[0][0].tag = 2
    /\ levels[1].sets[0][1].tag = 1 /\ levels[1].sets[0][1].last_access = 2
    /\ history[1].installed[0] = [k \in 0 .. 1 |-> IF k = 0 THEN 4 ELSE 2]

\* the way of set s at level i that the access of this step installed
InstalledWay(i, s) ==
    CHOOSE v \in Ways(levels[i]) : history'[i].installed[s][v] = levels'[i].access_counter
\* the way of set s at level i that holds the tag of the address before the step
HitWay(i, s) ==
    CHOOSE h \in Ways(levels[i]) :
        /\ levels[i].sets[s][h].valid
        /\ levels[i].sets[s][h].tag = getTag(levels[i], clast'.address)

\* C25: write_backs grows by 1 on a miss whose victim line is valid and
\* dirty; it does not change on a hit, on a miss that fills an invalid line,
\* on a miss that replaces a valid clean line, or at a level the access does
\* not reach; resetStats sets it to 0; it never exceeds misses.
WriteBacksCountDirtyEvictions ==
    /\ [](\A i \in 1 .. Len(levels) :
            levels[i].stats.write_backs <= levels[i].stats.misses)
    /\ [][/\ AccessStep =>
                \A i \in 1 .. Len(levels) :
                    LET s == getSetIndex(levels[i], clast'.address)
                        old == levels[i].stats.write_backs
                        new == levels'[i].stats.write_backs
                    IN IF i \in Probed /\ ~clast'.path[i]
                       THEN LET victim == levels[i].sets[s][InstalledWay(i, s)]
                            IN new = IF victim.valid /\ victim.dirty THEN old + 1 ELSE old
                       ELSE new = old
          /\ clast'.op = "resetStats" =>
                \A i \in 1 .. Len(levels) : levels'[i].stats.write_backs = 0]_cvars

\* C25 witness: a direct-mapped level after four accesses, one hit and three
\* misses: of the two evictions exactly one found a dirty line, and the last
\* access, a read, installed a clean line.
WriteBacksWitness ==
    /\ Len(levels) = 1 /\ levels[1].associativity = 1
    /\ clast.op = "access" /\ clast.address = 0 /\ ~clast.isWrite /\ clast.path = <<FALSE>>
    /\ levels[1].stats.accesses = 4 /\ levels[1].stats.hits = 1
    /\ ~levels[1].sets[1][0].valid
    /\ levels[1].stats.write_backs = 1
    /\ ~levels[1].sets[0][0].dirty

\* C26: an access sets the dirty bit of the line it installs to is_write,
\* also when the replaced line was dirty; a write hit sets the dirty bit of
\* the line it hits and a read hit leaves it; the dirty bit of every other
\* line is unchanged. So a valid line is dirty exactly when a write has
\* targeted it since it was installed.
DirtyIffWritten ==
    [][AccessStep =>
          \A i \in 1 .. Len(levels) :
              \A s \in DOMAIN levels[i].sets :
                  \A k \in Ways(levels[i]) :
                      LET old == levels[i].sets[s][k]
                          new == levels'[i].sets[s][k]
                          target == i \in Probed /\ s = getSetIndex(levels[i], clast'.address)
                      IN IF target /\ ~clast'.path[i] /\ k = InstalledWay(i, s)
                         THEN new.valid /\ new.dirty = clast'.isWrite
                         ELSE IF target /\ clast'.path[i] /\ k = HitWay(i, s)
                         THEN new.valid /\ new.dirty = (old.dirty \/ clast'.isWrite)
                         ELSE new.valid = old.valid /\ new.dirty = old.dirty]_cvars

\* C26 witness: a direct-mapped level where a line was installed and hit, at
\* least one of the two accesses being a write, and a read miss has just
\* replaced it by a clean line, counting the write-back.
DirtyWitness ==
    /\ Len(levels) = 1 /\ levels[1].associativity = 1
    /\ clast.op = "access" /\ clast.address = 2 /\ ~clast.isWrite /\ clast.path = <<FALSE>>
    /\ levels[1].stats.accesses = 3 /\ levels[1].stats.hits = 1
    /\ levels[1].stats.write_backs = 1
    /\ levels[1].sets[0][0].valid /\ ~levels[1].sets[0][0].dirty

\* number of valid lines of a set
ValidCount(lv, set) == Cardinality({k \in Ways(lv) : set[k].valid})

\* C27: the valid lines of a set are the ways below its number of valid
\* lines; a miss in a set that has an invalid line installs into the lowest
\* invalid way, changes no other line and counts no write-back; no other
\* step changes a valid bit. So the number of valid lines of a set is the
\* number of misses it has seen, capped at associativity (compared with
\* stats.misses where the level has one set and no reset has dropped a miss).
InvalidLinesFillFirst ==
    /\ [](\A i \in 1 .. Len(levels) :
            /\ \A s \in DOMAIN levels[i].sets :
                  \A k \in Ways(levels[i]) :
                      levels[i].sets[s][k].valid = (k < ValidCount(levels[i], levels[i].sets[s]))
            /\ (levels[i].num_sets = 1 /\ levels[i].stats.accesses = levels[i].access_counter) =>
                  ValidCount(levels[i], levels[i].sets[0])
                      = IF levels[i].stats.misses < levels[i].associativity
                        THEN levels[i].stats.misses ELSE levels[i].associativity)
    /\ [][\A i \in 1 .. Len(levels) :
             \A s \in DOMAIN levels[i].sets :
                 LET old == levels[i].sets[s]
                     new == levels'[i].sets[s]
                     n == ValidCount(levels[i], old)
                 IN IF /\ AccessStep /\ i \in Probed /\ ~clast'.path[i]
                       /\ s = getSetIndex(levels[i], clast'.address)
                    THEN IF n < levels[i].associativity
                         THEN /\ InstalledWay(i, s) = n
                              /\ \A k \in Ways(levels[i]) \ {n} : new[k] = old[k]
                              /\ levels'[i].stats.write_backs = levels[i].stats.write_backs
                              /\ ValidCount(levels[i], new) = n + 1
                         ELSE ValidCount(levels[i], new) = n
                    ELSE \A k \in Ways(levels[i]) : new[k].valid = old[k].valid]_cvars

\* C27 witness: a two-way set whose way 0 holds a dirty line; the second
\* access has just missed and filled way 1, no write-back has been counted.
InvalidLinesWitness ==
    /\ Len(levels) = 1 /\ levels[1].associativity = 2
    /\ clast.op = "access" /\ clast.path = <<FALSE>>
    /\ levels[1].stats.misses = 2 /\ levels[1].stats.write_backs = 0
    /\ levels[1].sets[0][0].valid /\ levels[1].sets[0][0].dirty
    /\ levels[1].sets[0][1].valid
    /\ history[1].installed[0] = [k \in 0 .. 1 |-> k + 1]

\* C28: resetStats sets hits, misses, accesses, write_backs and
\* total_access_time of every level to 0 and changes nothing else: geometry,
\* policy, latency, lines, FIFO queues and access counter of every level and
\* the hierarchy's initialized flag and total_access_time are as before, so
\* every resident address is still resident.
ResetStatsOnlyStats ==
    [][clast'.op = "resetStats" =>
          /\ Len(levels') = Len(levels)
          /\ total_access_time' = total_access_time
          /\ initialized' = initialized
          /\ \A i \in 1 .. Len(levels) :
                /\ levels'[i].stats.hits = 0
                /\ levels'[i].stats.misses = 0
                /\ levels'[i].stats.accesses = 0
                /\ levels'[i].stats.write_backs = 0
                /\ levels'[i].stats.total_access_time = 0
                /\ [levels'[i] EXCEPT !.stats = levels[i].stats] = levels[i]
                /\ \A x \in Addresses : InAfter(i, x) = In(i, x)]_cvars

\* C28 witness: two levels; an access missed in both, the stats were reset,
\* and the next access has just hit in the first level: its stats show that
\* one access only, its access counter both, and the hierarchy's total both.
ResetStatsWitness ==
    /\ Len(levels) = 2
    /\ clast.op = "access" /\ clast.path = <<TRUE>>
    /\ levels[1].access_counter = 2
    /\ levels[1].stats.accesses = 1 /\ levels[1].stats.hits = 1
    /\ levels[2].access_counter = 1 /\ levels[2].stats.accesses = 0
    /\ total_access_time = MemoryLatency + levels[2].access_latency + 2 * levels[1].access_latency

\* C29: every level of the hierarchy has at least one set and its sets, ways
\* and block size account for its whole size: a geometry that does not divide
\* evenly is rejected by addLevel and adds no level.
LevelsHaveExactGeometry ==
    \A i \in 1 .. Len(levels) :
        /\ levels[i].num_sets >= 1
        /\ levels[i].num_sets * levels[i].associativity * levels[i].block_size = levels[i].size

\* C30: in a hierarchy with at least one level, an access to the address of
\* the access made immediately before hits at the first level, costs the
\* first level's latency and leaves every deeper level as it was.
RepeatedAccessHitsFirstLevel ==
    [][(AccessStep /\ clast.op = "access" /\ clast'.address = clast.address
          /\ Len(levels) >= 1) =>
          /\ clast'.path = <<TRUE>>
          /\ clast'.cycles = levels[1].access_latency
          /\ total_access_time' = total_access_time + levels[1].access_latency
          /\ \A i \in 2 .. Len(levels) : levels'[i] = levels[i]]_cvars

\* C30 witness: two levels; a write missed in both for 111 cycles and the
\* read of the same address that followed has just hit in L1 for 1 cycle.
RepeatedAccessWitness ==
    /\ Len(levels) = 2
    /\ levels[1].access_latency = 1 /\ levels[2].access_latency = 10
    /\ clast.op = "access" /\ ~clast.isWrite /\ clast.path = <<TRUE>>
    /\ clast.cycles = 1 /\ total_access_time = 112
    /\ levels[1].stats.hits = 1 /\ levels[1].stats.misses = 1
    /\ levels[1].sets[getSetIndex(levels[1], clast.address)][0].dirty

\* n is a power of two
IsPowerOfTwo(n) == n >= 1 /\ Pow2(Log2(n)) = n
\* addresses a and b lie in the same block of level lv
SameBlock(lv, a, b) == a \div lv.block_size = b \div lv.block_size

\* C31: at a level with a power-of-two block size, two addresses of the same
\* block have the same set index and the same tag, and an access hits
\* whenever the line of an address of the same block is resident.
SameBlockSameLine ==
    /\ [](\A i \in 1 .. Len(levels) :
            IsPowerOfTwo(levels[i].block_size) =>
                \A a, b \in Addresses :
                    SameBlock(levels[i], a, b) =>
                        /\ getSetIndex(levels[i], a) = getSetIndex(levels[i], b)
                        /\ getTag(levels[i], a) = getTag(levels[i], b))
    /\ [][AccessStep =>
            \A i \in Probed :
                IsPowerOfTwo(levels[i].block_size) =>
                    \A b \in Addresses :
                        (SameBlock(levels[i], clast'.address, b) /\ In(i, b))
                            => clast'.path[i]]_cvars

\* C31 witness: L1 has one-byte blocks and L2 two-byte blocks; address 0 was
\* accessed first and installed block 0 in L2, and the access to address 1
\* has just missed in L1 and hit that line in L2.
SameBlockWitness ==
    /\ Len(levels) = 2
    /\ levels[1].block_size = 1 /\ levels[2].block_size = 2
    /\ clast.op = "access" /\ clast.address = 1 /\ clast.path = <<FALSE, TRUE>>
    /\ levels[1].stats.misses = 2 /\ levels[2].stats.hits = 1
    /\ history[1].block[0][0] = 0
    /\ history[2].block[0][0] = 0 /\ history[2].installed[0][0] = 1

\* the blocks that lines of level i were installed for
InstalledBlocks(i) ==
    {history[i].block[s][k] : s \in DOMAIN levels[i].sets, k \in Ways(levels[i])} \ {-1}

CountersConsistent ==
    /\ [](/\ stats.num_allocations = next_block_id - 1
          /\ Cardinality(Used) = stats.num_allocations - stats.num_deallocations)
    /\ [][last'.op # "initMemory" =>
            /\ stats'.num_allocations >= stats.num_allocations
            /\ stats'.num_deallocations >= stats.num_deallocations
            /\ stats'.allocation_failures >= stats.allocation_failures]_vars

\* C33 witness: three allocations, one failed request and one free since the
\* last initMemory: two nodes are in use and the next id is 4.
CountersWitness ==
    /\ stats.num_allocations = 3 /\ stats.num_deallocations = 1
    /\ stats.allocation_failures = 1
    /\ Cardinality(Used) = 2 /\ next_block_id = 4

\* geometries compared: any number of sets, power-of-two block sizes
SetCounts == 1 .. MaxSets
BlockSizes == {1, 2, 4}
\* addresses compared: more blocks than sets for every geometry
WideAddresses == 0 .. 4 * MaxSets + 3
\* a and b are one block, or differ in set index or tag, at a level of the geometry
NoAlias(lv, a, b) ==
    \/ SameBlock(lv, a, b)
    \/ getSetIndex(lv, a) # getSetIndex(lv, b)
    \/ getTag(lv, a) # getTag(lv, b)

\* C34: for num_sets >= 1, power of two or not, and power-of-two block size,
\* two addresses of different blocks never have the same set index and the
\* same tag (compared once, on the unaccessed level, for every geometry up
\* to MaxSets sets, and for the level in every state); a hit is on a line
\* that an access to the block of the address installed.
NoFalseHit ==
    /\ [](naccess = 0 =>
            \A n \in SetCounts, bs \in BlockSizes :
                \A a, b \in WideAddresses :
                    NoAlias([num_sets |-> n, block_size |-> bs], a, b))
    /\ [](\A i \in 1 .. Len(levels) :
            \A a, b \in AliasAddresses : NoAlias(levels[i], a, b))
    /\ [][AccessStep =>
            \A i \in Probed :
                clast'.path[i] =>
                    LET s == getSetIndex(levels[i], clast'.address)
                    IN history[i].block[s][HitWay(i, s)]
                           = clast'.address \div levels[i].block_size]_cvars

\* C34 witness: a direct-mapped level of three sets, where addresses 0 and
\* 3 share set 0: address 3 was installed over another line of set 0 and
\* the access to address 3 has just hit it.
NoFalseHitWitness ==
    /\ Len(levels) = 1 /\ levels[1].num_sets = 3
    /\ clast.op = "access" /\ clast.address = 3 /\ clast.path = <<TRUE>>
    /\ levels[1].stats.accesses = 3 /\ levels[1].stats.misses = 2
    /\ ~levels[1].sets[1][0].valid /\ ~levels[1].sets[2][0].valid
    /\ history[1].block[0][0] = 3 /\ history[1].installed[0][0] = 2

\* C35: no set of any level holds two valid lines with the same tag.
NoDuplicateTags ==
    \A i \in 1 .. Len(levels) :
        \A s \in DOMAIN levels[i].sets :
            \A j, k \in Ways(levels[i]) :
                (/\ j # k
                 /\ levels[i].sets[s][j].valid
                 /\ levels[i].sets[s][k].valid)
                    => levels[i].sets[s][j].tag # levels[i].sets[s][k].tag

\* C35 witness: a two-way set that is full after one hit and three misses,
\* the last of which replaced a line.
NoDuplicateTagsWitness ==
    /\ Len(levels) = 1 /\ levels[1].associativity = 2
    /\ levels[1].sets[0][0].valid /\ levels[1].sets[0][1].valid
    /\ levels[1].stats.hits = 1 /\ levels[1].stats.misses = 3
    /\ clast.op = "access" /\ clast.path = <<FALSE>>

\* C36: at a FIFO level the queue of every set holds the ways of the set's
\* valid lines, each once, in the order the lines were installed, oldest
\* first; so it is not empty when the set is full and is never longer than
\* associativity.
FifoQueueTracksValidLines ==
    \A i \in 1 .. Len(levels) :
        levels[i].policy = "FIFO" =>
            \A s \in DOMAIN levels[i].sets :
                LET queue == levels[i].fifo_queues[s]
                    set == levels[i].sets[s]
                IN /\ {queue[n] : n \in 1 .. Len(queue)} = {k \in Ways(levels[i]) : set[k].valid}
                   /\ Len(queue) = ValidCount(levels[i], set)
                   /\ Len(queue) <= levels[i].associativity
                   /\ Full(levels[i], s) => Len(queue) >= 1
                   /\ \A m, n \in 1 .. Len(queue) :
                         m < n => history[i].installed[s][queue[m]]
                                      < history[i].installed[s][queue[n]]

\* C36 witness: a FIFO level of one two-way set after a replacement: way 1
\* holds the older line and is at the front of the queue, way 0 the line
\* installed last.
FifoQueueWitness ==
    /\ Len(levels) = 1 /\ levels[1].policy = "FIFO" /\ levels[1].associativity = 2
    /\ levels[1].fifo_queues[0] = <<1, 0>>
    /\ history[1].installed[0][1] = 2
    /\ history[1].installed[0][0] = levels[1].access_counter
    /\ clast.op = "access" /\ clast.path = <<FALSE>>

\* the way of set s at level i that the access of this step hit or installed
TouchedWay(i, s) == IF clast'.path[i] THEN HitWay(i, s) ELSE InstalledWay(i, s)

\* C37: an access changes, at every level it probes, the line it hits or
\* installs and no other line, and counts one access there; a write leaves
\* that line dirty at every probed level, hit or miss; a level it does not
\* probe is unchanged. So the eviction of a dirty line adds to write_backs
\* of its own level and reaches no deeper level.
WritesReachEveryProbedLevel ==
    [][AccessStep =>
          \A i \in 1 .. Len(levels) :
              IF i \in Probed
              THEN LET s == getSetIndex(levels[i], clast'.address)
                       t == TouchedWay(i, s)
                   IN /\ levels'[i].stats.accesses = levels[i].stats.accesses + 1
                      /\ levels'[i].stats.hits + levels'[i].stats.misses
                             = levels[i].stats.hits + levels[i].stats.misses + 1
                      /\ levels'[i].sets[s][t].valid
                      /\ levels'[i].sets[s][t].tag = getTag(levels[i], clast'.address)
                      /\ clast'.isWrite => levels'[i].sets[s][t].dirty
                      /\ \A s2 \in DOMAIN levels[i].sets :
                            \A k \in Ways(levels[i]) :
                                (s2 # s \/ k # t) =>
                                    levels'[i].sets[s2][k] = levels[i].sets[s2][k]
                      /\ levels'[i].stats.write_backs =
                             levels[i].stats.write_backs
                             + (IF /\ ~clast'.path[i]
                                   /\ levels[i].sets[s][t].valid
                                   /\ levels[i].sets[s][t].dirty
                                THEN 1 ELSE 0)
              ELSE levels'[i] = levels[i]]_cvars

\* C37 witness: L1 direct-mapped, L2 one two-way set; a write installed
\* dirty lines in both levels, and a read of a conflicting address has just
\* replaced the dirty L1 line: L1 counts the write-back, L2 counts its two
\* accesses and no write-back, and its first line is dirty and untouched
\* since the write.
WritesReachWitness ==
    /\ Len(levels) = 2
    /\ levels[1].associativity = 1 /\ levels[2].associativity = 2
    /\ clast.op = "access" /\ ~clast.isWrite /\ clast.path = <<FALSE, FALSE>>
    /\ levels[1].stats.write_backs = 1
    /\ levels[2].stats.write_backs = 0 /\ levels[2].stats.accesses = 2
    /\ levels[2].sets[0][0].dirty /\ levels[2].sets[0][0].last_access = 1
    /\ ~levels[2].sets[0][1].dirty /\ levels[2].sets[0][1].last_access = 2

RECURSIVE LevelTimeSum(_)
LevelTimeSum(n) ==
    IF n = 0 THEN 0 ELSE levels[n].stats.total_access_time + LevelTimeSum(n - 1)
\* no resetStats call has dropped a counted access
NothingReset ==
    \A i \in 1 .. Len(levels) : levels[i].stats.accesses = levels[i].access_counter
\* number of accesses that missed in every level
MissedEverywhere ==
    IF Len(levels) = 0 THEN naccess ELSE levels[Len(levels)].stats.misses

\* C38: when all levels were added before the first access and no reset has
\* dropped any count, the hierarchy's total_access_time is the sum of the
\* levels' total_access_time plus memory_latency for every access that
\* missed in every level, and those are the misses of the last level.
TotalTimeIsSumOfLevels ==
    (AllAddedFirst /\ NothingReset) =>
        total_access_time = LevelTimeSum(Len(levels)) + MemoryLatency * MissedEverywhere

\* C38 witness: two levels with latencies 1 and 10, never reset; one access
\* missed in both and one hit in L2: 111 + 11 = (1 + 1) + (10 + 10) + 100.
TotalTimeWitness ==
    /\ Len(levels) = 2 /\ AllAddedFirst /\ NothingReset
    /\ levels[1].access_latency = 1 /\ levels[2].access_latency = 10
    /\ naccess = 2 /\ clast.op = "access" /\ clast.path = <<FALSE, TRUE>>
    /\ levels[2].stats.misses = 1
    /\ total_access_time = 122

\* the valid lines of a level, as pairs of set and way
ValidLines(lv) ==
    {p \in (DOMAIN lv.sets) \X Ways(lv) : lv.sets[p[1]][p[2]].valid}

\* C39: within a level the valid lines of all sets have pairwise different
\* last_access values, each between 1 and the level's access counter; so the
\* smallest last_access of a full set belongs to one way only.
LastAccessDistinct ==
    \A i \in 1 .. Len(levels) :
        /\ \A p, q \in ValidLines(levels[i]) :
              p # q => levels[i].sets[p[1]][p[2]].last_access
                           # levels[i].sets[q[1]][q[2]].last_access
        /\ \A p \in ValidLines(levels[i]) :
              /\ levels[i].sets[p[1]][p[2]].last_access >= 1
              /\ levels[i].sets[p[1]][p[2]].last_access <= levels[i].access_counter
        /\ \A s \in DOMAIN levels[i].sets :
              Full(levels[i], s) =>
                  Cardinality({k \in Ways(levels[i]) :
                                  \A j \in Ways(levels[i]) :
                                      levels[i].sets[s][k].last_access
                                          <= levels[i].sets[s][j].last_access}) = 1

\* C39 witness: an LRU level of one two-way set where the line of way 0 was
\* installed first and hit last: way 1 carries the smallest last_access, as
\* the LRU scan is about to find when the fourth access misses.
LastAccessWitness ==
    /\ Len(levels) = 1 /\ levels[1].policy = "LRU" /\ levels[1].associativity = 2
    /\ levels[1].access_counter = 3
    /\ levels[1].sets[0][0].valid /\ levels[1].sets[0][0].last_access = 3
    /\ levels[1].sets[0][1].valid /\ levels[1].sets[0][1].last_access = 2
    /\ history[1].installed[0][0] = 1

====
